---- MODULE Spec2Model ----
(***************************************************************************)
(* HaliCred deterministic GreenScore engine (src/backend/app/ai).          *)
(*                                                                         *)
(* Numbers are fixed point, exact on the inputs enumerated here:           *)
(*   physical feature values   whole units (kWh, litres, kg, m3)           *)
(*   emission factors          1/1000 kg CO2 per unit                      *)
(*   co2_kg_*                  grams (1/1000 kg)                           *)
(*   confidences               1/1000                                      *)
(*   pillar subscores          1/PointScale of a point                     *)
(* An Optional[float] is the empty set (None) or a singleton {v}.          *)
(***************************************************************************)
EXTENDS Integers, Sequences, FiniteSets, TLC

VARIABLES
    pc,       \* position of the call under study
    clock,    \* datetime.now(), in ticks
    emIn,     \* arguments and environment of calculate_emissions
    emOut,    \* the EmissionResult it returned
    scIn,     \* arguments of compute_score
    scOut,    \* the GreenScoreResult it returned
    scFirst,  \* the GreenScoreResult of the first compute_score on scIn
    scOther,  \* the GreenScoreResult of a call on other arguments
    ccIn,     \* arguments of calculate_carbon_credits
    ccOut,    \* what it returned, and what it did on the way
    cmIn,     \* arguments of evaluate_confidence
    cmOut,    \* the assessment it returned
    rvIn,     \* arguments of _determine_review_requirements
    rvOut,    \* the decision it returned
    orIn,     \* the AIRequest and the orchestrator's construction
    orTrace,  \* the stage calls and returns of the run, in order
    orOut,    \* the AIResult the run returned
    llm,      \* locals of _execute_llm_workflow: iteration and stored results
    tables,   \* configuration tables of the shared service objects
    inv,      \* the concurrent invocations: arguments, position, locals, result
    apiCalls, \* GET requests sent to the emission-factor API by the invocation
    otpImpl,  \* which verify_otp serves: app/main.py or the /auth router
    otpStore, \* OTP_STORE: phone to (hash, expiry) or nothing
    otpLast,  \* the last request and the response it was given
    otpSeq,   \* requests served so far
    otpVerified \* per phone, the code verified since the last send_otp

vars == <<pc, clock, emIn, emOut, scIn, scOut, scFirst, scOther, ccIn, ccOut,
          cmIn, cmOut, rvIn, rvOut, orIn, orTrace, orOut,
          llm,
          tables, inv,
          apiCalls,
          otpImpl, otpStore, otpLast, otpSeq,
          otpVerified>>

(***************************************************************************)
(* Shared helpers                                                          *)
(***************************************************************************)
None == {}

Some(v) == {v}

Val(x) == CHOOSE v \in x : TRUE

\* Python truthiness of an Optional[float]: None and 0.0 are falsy.
Truthy(x) == x # None /\ Val(x) # 0

\* `x or 0`
OrZero(x) == IF Truthy(x) THEN Val(x) ELSE 0

Min(a, b) == IF a <= b THEN a ELSE b

Max(a, b) == IF a >= b THEN a ELSE b

Abs(a) == IF a >= 0 THEN a ELSE -a

RECURSIVE SumOver(_, _)
\* sum(f[k] for k in S)
SumOver(f, S) ==
    IF S = {} THEN 0
    ELSE LET k == CHOOSE x \in S : TRUE IN f[k] + SumOver(f, S \ {k})

NoResult == [kind |-> "none"]

(***************************************************************************)
(* models.py: EmissionFeatures                                             *)
(***************************************************************************)
FeatureNames ==
    {"kwh_saved", "diesel_liters_avoided", "plastic_kg_recycled",
     "water_m3_saved", "solar_kwh_generated", "appliance_efficiency_gain"}

\* Largest level of the feature values enumerated (see FeatureValue).
MaxLevel == 1

FeatureValue(i) ==
    CASE i = -1 -> -40
      [] i = 0  -> 0
      [] i = 1  -> 100
      [] i = 2  -> 12000
      [] OTHER  -> 12000 + 4000 * (i - 2)

\* kwh_saved ranges one level further, so that the outlier branch of the
\* confidence (aggregate magnitude > 10000) is exercised.
FeatureLevels(f) ==
    IF f = "kwh_saved" THEN -1 .. (MaxLevel + 1) ELSE -1 .. MaxLevel

FeatureValues(f) == {None} \cup {Some(FeatureValue(i)) : i \in FeatureLevels(f)}

EmissionFeatures ==
    [kwh_saved : FeatureValues("kwh_saved"),
     diesel_liters_avoided : FeatureValues("diesel_liters_avoided"),
     plastic_kg_recycled : FeatureValues("plastic_kg_recycled"),
     water_m3_saved : FeatureValues("water_m3_saved"),
     solar_kwh_generated : FeatureValues("solar_kwh_generated"),
     appliance_efficiency_gain : FeatureValues("appliance_efficiency_gain")]

(***************************************************************************)
(* emission_calculator.py                                                  *)
(***************************************************************************)
kenya_factors ==
    [grid_ef_kg_co2_kwh |-> Some(450), diesel_kg_co2_liter |-> 2680,
     plastic_kg_co2_kg |-> 6000, water_pump_kwh_m3 |-> 500]

global_factors ==
    [grid_ef_kg_co2_kwh |-> Some(520), diesel_kg_co2_liter |-> 2680,
     plastic_kg_co2_kg |-> 6000, water_pump_kwh_m3 |-> 400]

\* The region argument; "NoneRegion" stands for a caller passing None.
Regions == {"Kenya", "KENYA", "Uganda", "NoneRegion"}

\* str.lower() on the region and sector strings enumerated.
Lower(s) ==
    CASE s = "Kenya" -> "kenya"
      [] s = "KENYA" -> "kenya"
      [] s = "Uganda" -> "uganda"
      [] s = "Salon" -> "salon"
      [] s = "Bakery" -> "bakery"
      [] OTHER -> s

\* What one GET of the emission-factor API can produce:
\*   error        requests raised (timeout, connection, bad JSON)
\*   empty        a non-200 status, or a body with no results
\*   factor       results[0] carries a numeric "factor" (here 0.30 kg/kWh)
\*   no_factor    results[0] has no "factor" key
\*   null_factor  results[0] carries "factor": null
ApiOutcomes == {"error", "empty", "factor", "no_factor", "null_factor"}

\* _fetch_climatiq_factors: None, or the overriding grid factor.
\* The result is a record [found, grid] with grid an Optional.
FetchClimatiqFactors(api_key, outcome) ==
    IF ~api_key THEN [found |-> FALSE, grid |-> None]
    ELSE CASE outcome = "factor" -> [found |-> TRUE, grid |-> Some(300)]
           [] outcome = "no_factor" ->
                [found |-> TRUE, grid |-> kenya_factors.grid_ef_kg_co2_kwh]
           [] outcome = "null_factor" -> [found |-> TRUE, grid |-> None]
           [] OTHER -> [found |-> FALSE, grid |-> None]

\* Whether _get_emission_factors calls the API at all.
CallsApi(api_key, region) ==
    api_key /\ region # "NoneRegion" /\ Lower(region) = "kenya"

\* A resolution that goes from a failed API call straight to the global table.
GetEmissionFactorsSkipsLocal(api_key, region, outcome) ==
    IF region = "NoneRegion"
    THEN [f |-> kenya_factors, source |-> "error_fallback"]
    ELSE LET fetched == FetchClimatiqFactors(api_key, outcome) IN
         IF CallsApi(api_key, region) /\ fetched.found
         THEN [f |-> [kenya_factors EXCEPT !.grid_ef_kg_co2_kwh = fetched.grid],
               source |-> "climatiq"]
         ELSE IF Lower(region) = "kenya" /\ ~api_key
         THEN [f |-> kenya_factors, source |-> "local_kenya"]
         ELSE [f |-> global_factors, source |-> "global_fallback"]

\* _get_emission_factors: the factor table with its "source".
GetEmissionFactors(api_key, region, outcome) ==
    IF region = "NoneRegion"
    THEN \* region.lower() raises; the handler's own except answers
         [f |-> kenya_factors, source |-> "error_fallback"]
    ELSE LET fetched == FetchClimatiqFactors(api_key, outcome) IN
         IF CallsApi(api_key, region) /\ fetched.found
         THEN [f |-> [kenya_factors EXCEPT !.grid_ef_kg_co2_kwh = fetched.grid],
               source |-> "climatiq"]
         ELSE IF Lower(region) = "kenya"
         THEN [f |-> kenya_factors, source |-> "local_kenya"]
         ELSE [f |-> global_factors, source |-> "global_fallback"]

\* The feature each component is computed from (lines 54-89).
ComponentFeature ==
    [energy_grid_kwh |-> "kwh_saved", solar_generation |-> "solar_kwh_generated",
     diesel |-> "diesel_liters_avoided", plastic |-> "plastic_kg_recycled",
     water |-> "water_m3_saved", appliance_efficiency |-> "appliance_efficiency_gain"]

\* One component: the feature value times its factor.  Precondition: the
\* grid factor is numeric when the component needs it.
ComponentValue(c, ft, f) ==
    LET x == Val(ft[ComponentFeature[c]])
    IN CASE c = "diesel" -> x * f.diesel_kg_co2_liter
         [] c = "plastic" -> x * f.plastic_kg_co2_kg
         [] c = "water" ->
              \* water_energy_kwh = m3 * pump factor, then times the grid factor
              x * ((f.water_pump_kwh_m3 * Val(f.grid_ef_kg_co2_kwh)) \div 1000)
         [] OTHER -> x * Val(f.grid_ef_kg_co2_kwh)

\* co2_components: a key for every truthy feature.
Co2Components(ft, f) ==
    [c \in {k \in DOMAIN ComponentFeature : Truthy(ft[ComponentFeature[k]])} |->
        ComponentValue(c, ft, f)]

\* A channel that multiplies by the grid factor is populated.
UsesGrid(ft) ==
    \/ Truthy(ft.kwh_saved) \/ Truthy(ft.solar_kwh_generated)
    \/ Truthy(ft.water_m3_saved) \/ Truthy(ft.appliance_efficiency_gain)

\* _calculate_emission_confidence
EmissionConfidence(ft, source) ==
    LET feature_count == Cardinality({f \in FeatureNames : ft[f] # None})
        total_features == SumOver([f \in FeatureNames |-> OrZero(ft[f])], FeatureNames)
        c1 == 500 + Min(feature_count * 100, 300)
        c2 == c1 + (CASE source = "climatiq" -> 200
                      [] source = "local_kenya" -> 100
                      [] OTHER -> 0)
        c3 == c2 - (IF total_features > 10000 THEN 200
                    ELSE IF total_features < 1 THEN 100 ELSE 0)
    IN Max(100, Min(1000, c3))

\* region.lower() raises inside _get_emission_factors when the region is None.
FactorResolutionRaises(region) == region = "NoneRegion"

\* A product with the grid factor raises inside calculate_emissions when the
\* resolved grid factor is None.
ComputationRaises(ft, f) == UsesGrid(ft) /\ f.grid_ef_kg_co2_kwh = None

\* The except branch of calculate_emissions.
EmissionErrorFallback ==
    [kind |-> "EmissionResult", co2_kg_components |-> <<>>, co2_kg_total |-> 0,
     method |-> "error_fallback", ef_source |-> "none", confidence |-> 100]

\* A total that leaves the water channel out.
TotalCo2SkipsWater(components) ==
    SumOver(components, DOMAIN components \ {"water"})

\* sum(co2_components.values())
TotalCo2(components) == SumOver(components, DOMAIN components)

\* calculate_emissions
CalculateEmissionsResult(features, region, api_key, outcome) ==
    LET ef == GetEmissionFactors(api_key, region, outcome) IN
    IF UsesGrid(features) /\ ef.f.grid_ef_kg_co2_kwh = None
    THEN EmissionErrorFallback     \* float * None raises TypeError
    ELSE LET components == Co2Components(features, ef.f) IN
         [kind |-> "EmissionResult",
          co2_kg_components |-> components,
          co2_kg_total |-> TotalCo2(components),
          method |-> "Kenya EF + IPCC factors",
          ef_source |-> ef.source,
          confidence |-> EmissionConfidence(features, ef.source)]

(***************************************************************************)
(* sector_baseline.py                                                      *)
(***************************************************************************)
Pillars == {"energy", "water", "waste", "carbon", "community"}

\* The order in which _calculate_subscores inserts the pillars.
PillarOrder == <<"carbon", "energy", "water", "waste", "community">>

\* The sector argument: known sectors, one in another case, one unknown.
Sectors == {"Salon", "farmer", "welding", "Bakery"}

\* get_sector_weights, in hundredths.
sector_weights ==
    [salon   |-> [energy |-> 35, water |-> 15, waste |-> 25, carbon |-> 20, community |-> 5],
     farmer  |-> [energy |-> 25, water |-> 40, waste |-> 10, carbon |-> 20, community |-> 5],
     welding |-> [energy |-> 45, water |-> 5, waste |-> 15, carbon |-> 30, community |-> 5],
     other   |-> [energy |-> 30, water |-> 20, waste |-> 20, carbon |-> 25, community |-> 5]]

GetSectorWeights(sector) ==
    IF Lower(sector) \in DOMAIN sector_weights
    THEN sector_weights[Lower(sector)] ELSE sector_weights["other"]

\* get_baseline: the key of the baseline table entry that answers.
BaselineKey(sector) ==
    IF Lower(sector) \in {"salon", "farmer", "welding", "other"}
    THEN Lower(sector) ELSE "other"

(***************************************************************************)
(* score_computer.py                                                       *)
(***************************************************************************)
\* Raw subscores are in 1/PointScale of a point, so that one gram of CO2 is
\* one unit of the carbon pillar (5 t = 25 points).
PointScale == 200000

\* Weighted subscores are in 1/WeightedScale of a point: the raw value times
\* the weight in hundredths, the division by 0.2 being a division by 20.
WeightedScale == PointScale * 20

pillar_maxes ==
    [energy |-> 30, water |-> 15, waste |-> 20, carbon |-> 25, community |-> 10]

MetricNames ==
    {"renewable_pct", "kwh_saved_ann", "water_m3_saved_ann", "waste_recycled_pct",
     "waste_kg_recycled_ann", "nema_certified", "community_training",
     "local_sourcing_pct"}

\* A user_metrics entry: absent, or present with a number, with None, or
\* with a non-empty string (the dictionary is not validated).
\* The *_pct metrics are fractions in the code and whole percents here.
Absent == [has |-> FALSE, v |-> None, text |-> FALSE]

Present(v) == [has |-> TRUE, v |-> Some(v), text |-> FALSE]

PresentNone == [has |-> TRUE, v |-> None, text |-> FALSE]

PresentText == [has |-> TRUE, v |-> None, text |-> TRUE]

\* The truth value of an entry's value: a non-empty string is true.
MetricTruthy(e) == e.text \/ Truthy(e.v)

NoMetrics == [k \in MetricNames |-> Absent]

\* A metric the computation multiplies is present with the value None or
\* with a string.
MetricRaises(um) ==
    \E k \in MetricNames \ {"nema_certified", "community_training"} :
        um[k].has /\ um[k].v = None

\* _calculate_subscores, in 1/PointScale.  Precondition: ~MetricRaises(um).
CalculateSubscores(co2_kg_total, um) ==
    LET cap(p) == pillar_maxes[p] * PointScale
        \* co2_tonnes / 5.0 * 25
        carbon == Min(cap("carbon"), co2_kg_total)
        renewable ==
            IF um["renewable_pct"].has
            THEN Val(um["renewable_pct"].v) * ((21 * PointScale) \div 100) ELSE 0
        efficiency ==
            IF um["kwh_saved_ann"].has
            THEN Min(9 * PointScale,
                     Val(um["kwh_saved_ann"].v) * ((9 * PointScale) \div 3000))
            ELSE 0
        water ==
            IF um["water_m3_saved_ann"].has
            THEN Min(cap("water"),
                     Val(um["water_m3_saved_ann"].v) * ((15 * PointScale) \div 2000))
            ELSE 0
        recycled ==
            IF um["waste_recycled_pct"].has
            THEN Val(um["waste_recycled_pct"].v) * ((12 * PointScale) \div 100) ELSE 0
        recycling ==
            IF um["waste_kg_recycled_ann"].has
            THEN Min(8 * PointScale,
                     Val(um["waste_kg_recycled_ann"].v) * ((8 * PointScale) \div 500))
            ELSE 0
        community ==
            (IF um["nema_certified"].has /\ MetricTruthy(um["nema_certified"])
             THEN 3 * PointScale ELSE 0)
            + (IF um["community_training"].has /\ MetricTruthy(um["community_training"])
               THEN 2 * PointScale ELSE 0)
            + (IF um["local_sourcing_pct"].has
               THEN Val(um["local_sourcing_pct"].v) * ((5 * PointScale) \div 100) ELSE 0)
    IN [carbon |-> carbon,
        energy |-> Min(cap("energy"), renewable + efficiency),
        water |-> water,
        waste |-> Min(cap("waste"), recycled + recycling),
        community |-> Min(cap("community"), community)]

\* _apply_sector_weights: score * weight / 0.2, in 1/WeightedScale.
ApplySectorWeights(subscores, weights) ==
    [p \in DOMAIN subscores |-> subscores[p] * weights[p]]

\* Python's round() of n/d to an integer: nearest, ties to even.
RoundHalfEven(n, d) ==
    LET q == n \div d
        r == n % d
    IN IF 2 * r < d THEN q
       ELSE IF 2 * r > d THEN q + 1
       ELSE IF q % 2 = 0 THEN q ELSE q + 1

\* The score without its upper clamp: max(0, round(sum)).
GreenScoreNoUpperClamp(weighted) ==
    Max(0, RoundHalfEven(SumOver(weighted, DOMAIN weighted), WeightedScale))

\* max(0, min(100, round(sum(weighted.values()))))
GreenScore(weighted) ==
    Max(0, Min(100, RoundHalfEven(SumOver(weighted, DOMAIN weighted), WeightedScale)))

\* A confidence that is discounted by the time of the call.
ScoreConfidenceAged(em_confidence, um, weighted) ==
    Max(100, Min(1000, 500 + (em_confidence * 3) \div 10 - 100 * clock))

\* `v > 0` raises inside _calculate_score_confidence on a string value.
ScoreConfidenceRaises(um) == \E k \in MetricNames : um[k].has /\ um[k].text

\* _calculate_score_confidence; 500 is the value of its except branch.
ScoreConfidence(em_confidence, um, weighted) ==
    IF ScoreConfidenceRaises(um) THEN 500 ELSE
    LET metrics_count ==
            Cardinality({k \in MetricNames :
                           um[k].has /\ um[k].v # None /\ Val(um[k].v) > 0})
        non_zero_pillars == Cardinality({p \in DOMAIN weighted : weighted[p] > 0})
        total_score == SumOver(weighted, DOMAIN weighted)
        c1 == 500 + (em_confidence * 3) \div 10 + Min(metrics_count * 50, 200)
        c2 == c1 + (IF non_zero_pillars >= 3 THEN 100
                    ELSE IF non_zero_pillars >= 2 THEN 50 ELSE 0)
        c3 == c2 - (IF total_score > 90 * WeightedScale \/ total_score < 10 * WeightedScale
                    THEN 100 ELSE 0)
    IN Max(100, Min(1000, c3))

\* The pillars before p when sorted(items, key=value, reverse=True): the
\* sort is stable, so equal values keep their insertion order.
PillarIndex(p) == CHOOSE i \in 1 .. Len(PillarOrder) : PillarOrder[i] = p

SortedBefore(weighted, q, p) ==
    \/ weighted[q] > weighted[p]
    \/ weighted[q] = weighted[p] /\ PillarIndex(q) < PillarIndex(p)

SortedPillars(weighted) ==
    [i \in 1 .. Cardinality(DOMAIN weighted) |->
        CHOOSE p \in DOMAIN weighted :
            Cardinality({q \in DOMAIN weighted : SortedBefore(weighted, q, p)}) = i - 1]

ComponentOrder ==
    <<"energy_grid_kwh", "solar_generation", "diesel", "plastic", "water",
      "appliance_efficiency">>

\* max(components.items(), key=value): the first of the largest.
TopEmission(components) ==
    LET idx(c) == CHOOSE i \in 1 .. Len(ComponentOrder) : ComponentOrder[i] = c
    IN CHOOSE c \in DOMAIN components :
         \A d \in DOMAIN components :
            \/ components[c] > components[d]
            \/ components[c] = components[d] /\ idx(c) <= idx(d)

\* _generate_explainers: one entry per line appended.  `score` is the value
\* the line prints (the weighted subscore it is handed) and `percentage` is
\* score / max_points * 100 as "{:.0f}" prints it.
GenerateExplainers(weighted, components) ==
    LET sorted == SortedPillars(weighted)
        top == SubSeq(sorted, 1, Min(3, Len(sorted)))
        line(p) ==
            [pillar |-> p, score |-> weighted[p], max_points |-> pillar_maxes[p],
             percentage |->
                RoundHalfEven(weighted[p], pillar_maxes[p] * (WeightedScale \div 100))]
        pillars == [i \in 1 .. Len(top) |-> line(top[i])]
    IN IF DOMAIN components = {} THEN pillars
       ELSE Append(pillars,
                   [pillar |-> "largest_impact", score |-> 0, max_points |-> 0,
                    percentage |-> 0, component |-> TopEmission(components)])

\* get_improvement_suggestions(sector, {}): with no percentiles every
\* .get(..., 0.5) comparison is false, so only the unconditional lines remain.
GetImprovementSuggestions(sector) ==
    CASE Lower(sector) = "salon" ->
           <<"Switch to eco-friendly hair products and packaging">>
      [] Lower(sector) = "farmer" ->
           <<"Use organic fertilizers and integrated pest management">>
      [] Lower(sector) = "welding" ->
           <<"Install solar panels to offset high energy consumption",
             "Implement metal recycling and waste reduction practices">>
      [] OTHER ->
           <<"Consider renewable energy solutions for your business",
             "Implement energy-efficient equipment and practices",
             "Explore waste reduction and recycling opportunities">>

\* min(subscores.items(), key=value): the first of the smallest.
LowestPillar(weighted) ==
    CHOOSE p \in DOMAIN weighted :
        \A q \in DOMAIN weighted :
            \/ weighted[p] < weighted[q]
            \/ weighted[p] = weighted[q] /\ PillarIndex(p) <= PillarIndex(q)

\* _generate_actions
GenerateActions(greenscore, weighted, sector) ==
    LET tier ==
            IF greenscore >= 80
            THEN <<"Excellent! Approved for premium green loan rates",
                   "Consider carbon credit monetization opportunities">>
            ELSE IF greenscore >= 60
            THEN <<"Good progress! Approved for standard green loan discount",
                   "Continue implementing sustainable practices">>
            ELSE IF greenscore >= 40
            THEN <<"Approved with basic green discount",
                   "Focus on high-impact improvements for better rates">>
            ELSE <<"Additional evidence needed for green loan qualification",
                   "Implement foundational sustainability measures">>
        low == LowestPillar(weighted)
        \* pillar_score < max_points * 0.3
        nudge ==
            IF weighted[low] < 3 * pillar_maxes[low] * (WeightedScale \div 10)
            THEN <<"Priority: " \o low>> ELSE <<>>
        suggestions == GetImprovementSuggestions(sector)
    IN tier \o nudge \o SubSeq(suggestions, 1, Min(2, Len(suggestions)))

\* The except branch of compute_score.
ScoreErrorResult ==
    [kind |-> "GreenScoreResult", greenscore |-> 0, subscores |-> <<>>,
     co2_saved_kg |-> 0, confidence |-> 100,
     explainers |-> <<[pillar |-> "error", score |-> 0, max_points |-> 0,
                       percentage |-> 0]>>,
     actions |-> <<"Please re-upload evidence">>,
     baseline |-> "none", timestamp |-> clock]

\* compute_score.  `em` is the EmissionResult argument; the provenance
\* timestamp is datetime.now().
ComputeScoreResult(sector, em, um) ==
    IF MetricRaises(um) THEN ScoreErrorResult
    ELSE LET subscores == CalculateSubscores(em.co2_kg_total, um)
             weighted == ApplySectorWeights(subscores, GetSectorWeights(sector))
             greenscore == GreenScore(weighted)
         IN [kind |-> "GreenScoreResult",
             greenscore |-> greenscore,
             subscores |-> weighted,
             co2_saved_kg |-> em.co2_kg_total,
             confidence |-> ScoreConfidence(em.confidence, um, weighted),
             explainers |-> GenerateExplainers(weighted, em.co2_kg_components),
             actions |-> GenerateActions(greenscore, weighted, sector),
             baseline |-> BaselineKey(sector),
             timestamp |-> clock]


(***************************************************************************)
(* Specification of calculate_emissions: one call on every input, then     *)
(* further calls that raise one feature value and keep everything else.    *)
(***************************************************************************)
EmInputs ==
    {i \in [features : EmissionFeatures, region : Regions,
            api_key : BOOLEAN, outcome : ApiOutcomes \cup {"unused"}] :
        i.outcome = "unused" <=> ~CallsApi(i.api_key, i.region)}

ScoreIdle ==
    scIn = NoResult /\ scOut = NoResult /\ scFirst = NoResult /\ scOther = NoResult

CreditIdle == ccIn = NoResult /\ ccOut = NoResult

ConfidenceIdle == cmIn = NoResult /\ cmOut = NoResult

ReviewIdle == rvIn = NoResult /\ rvOut = NoResult

OrchestratorIdle == orIn = NoResult /\ orTrace = <<>> /\ orOut = NoResult

OtpHistoryIdle == otpVerified = <<>>

OtpIdle == otpImpl = "none" /\ otpStore = NoResult /\ otpLast = NoResult /\ otpSeq = 0

FetchIdle == apiCalls = 0

SharedIdle == tables = NoResult /\ inv = NoResult

LlmIdle == llm = NoResult

InitEm ==
    /\ pc = "em_called"
    /\ clock = 0
    /\ emIn \in EmInputs
    /\ emOut = NoResult
    /\ ScoreIdle /\ CreditIdle /\ ConfidenceIdle
    /\ ReviewIdle /\ OrchestratorIdle
    /\ LlmIdle
    /\ SharedIdle
    /\ FetchIdle
    /\ OtpIdle
    /\ OtpHistoryIdle

CalculateEmissions ==
    /\ pc = "em_called"
    /\ emOut' = CalculateEmissionsResult(emIn.features, emIn.region,
                                         emIn.api_key, emIn.outcome)
    /\ pc' = "em_done"
    /\ UNCHANGED <<clock, emIn, scIn, scOut, scFirst, scOther, ccIn, ccOut, cmIn, cmOut, rvIn, rvOut, orIn, orTrace, orOut, llm, tables, inv, apiCalls, otpImpl, otpStore, otpLast, otpSeq, otpVerified>>

\* The same call again with one feature value raised.
IncreaseFeature ==
    /\ pc = "em_done"
    /\ \E f \in FeatureNames : \E v \in FeatureValues(f) :
          /\ emIn.features[f] # None
          /\ v # None
          /\ Val(v) > Val(emIn.features[f])
          /\ emIn' = [emIn EXCEPT !.features[f] = v]
          /\ emOut' = CalculateEmissionsResult(emIn'.features, emIn.region,
                                               emIn.api_key, emIn.outcome)
    /\ UNCHANGED <<pc, clock, scIn, scOut, scFirst, scOther, ccIn, ccOut, cmIn, cmOut, rvIn, rvOut, orIn, orTrace, orOut, llm, tables, inv, apiCalls, otpImpl, otpStore, otpLast, otpSeq, otpVerified>>

NextEm == CalculateEmissions \/ IncreaseFeature

SpecEm == InitEm /\ [][NextEm]_vars

(***************************************************************************)
(* Specification of compute_score: a first call on every input, then, as   *)
(* time passes and calls on other arguments come in between, the same call *)
(* again.                                                                  *)
(***************************************************************************)
\* The last tick of the clock.
MaxClock == 1

\* The values enumerated for each user_metrics key.
MetricValues(k) ==
    CASE k = "renewable_pct" -> {Absent, PresentNone, Present(60), Present(-100)}
      [] k = "kwh_saved_ann" -> {Absent, Present(4000)}
      [] k = "water_m3_saved_ann" -> {Absent, Present(300), Present(3000)}
      [] k = "waste_recycled_pct" -> {Absent, Present(100)}
      [] k = "waste_kg_recycled_ann" -> {Absent, Present(600)}
      [] k = "nema_certified" -> {Absent, Present(1), PresentText}
      [] k = "community_training" -> {Absent, Present(1)}
      [] OTHER -> {Absent, Present(100)}

UserMetrics ==
    [renewable_pct : MetricValues("renewable_pct"),
     kwh_saved_ann : MetricValues("kwh_saved_ann"),
     water_m3_saved_ann : MetricValues("water_m3_saved_ann"),
     waste_recycled_pct : MetricValues("waste_recycled_pct"),
     waste_kg_recycled_ann : MetricValues("waste_kg_recycled_ann"),
     nema_certified : MetricValues("nema_certified"),
     community_training : MetricValues("community_training"),
     local_sourcing_pct : MetricValues("local_sourcing_pct")]

NoFeatures == [f \in FeatureNames |-> None]

\* Emission results handed to compute_score: what calculate_emissions returns
\* for no evidence, for 100 kWh saved, for a negative diesel figure, for a
\* large saving (above the 5 t cap) and on its error fallback.
ScoreEmissionInputs ==
    {CalculateEmissionsResult(NoFeatures, "Kenya", FALSE, "unused"),
     CalculateEmissionsResult([NoFeatures EXCEPT !.kwh_saved = Some(FeatureValue(1))],
                              "Kenya", FALSE, "unused"),
     CalculateEmissionsResult([NoFeatures EXCEPT !.diesel_liters_avoided = Some(FeatureValue(-1))],
                              "Uganda", FALSE, "unused"),
     CalculateEmissionsResult([NoFeatures EXCEPT !.kwh_saved = Some(FeatureValue(2)),
                                                 !.plastic_kg_recycled = Some(FeatureValue(1))],
                              "Kenya", TRUE, "error"),
     CalculateEmissionsResult([NoFeatures EXCEPT !.kwh_saved = Some(FeatureValue(1))],
                              "Kenya", TRUE, "null_factor")}

ScoreInputs == [sector : Sectors, em : ScoreEmissionInputs, um : UserMetrics]

EmIdle == emIn = NoResult /\ emOut = NoResult

InitScore ==
    /\ pc = "sc_called"
    /\ clock = 0
    /\ scIn \in ScoreInputs
    /\ scOut = NoResult /\ scFirst = NoResult /\ scOther = NoResult
    /\ EmIdle /\ CreditIdle /\ ConfidenceIdle
    /\ ReviewIdle /\ OrchestratorIdle
    /\ LlmIdle
    /\ SharedIdle
    /\ FetchIdle
    /\ OtpIdle
    /\ OtpHistoryIdle

ComputeScore ==
    /\ pc = "sc_called"
    /\ scOut' = ComputeScoreResult(scIn.sector, scIn.em, scIn.um)
    /\ scFirst' = scOut'
    /\ pc' = "sc_done"
    /\ UNCHANGED <<clock, emIn, emOut, scIn, scOther, ccIn, ccOut, cmIn, cmOut, rvIn, rvOut, orIn, orTrace, orOut, llm, tables, inv, apiCalls, otpImpl, otpStore, otpLast, otpSeq, otpVerified>>

Tick ==
    /\ pc = "sc_done"
    /\ clock < MaxClock
    /\ clock' = clock + 1
    /\ UNCHANGED <<pc, emIn, emOut, scIn, scOut, scFirst, scOther, ccIn, ccOut, cmIn, cmOut, rvIn, rvOut, orIn, orTrace, orOut, llm, tables, inv, apiCalls, otpImpl, otpStore, otpLast, otpSeq, otpVerified>>

\* A call on other arguments (another sector, no metrics) in between.
ComputeScoreOther ==
    /\ pc = "sc_done"
    /\ scOther = NoResult
    /\ scOther' = ComputeScoreResult("welding", scIn.em, NoMetrics)
    /\ UNCHANGED <<pc, clock, emIn, emOut, scIn, scOut, scFirst, ccIn, ccOut, cmIn, cmOut, rvIn, rvOut, orIn, orTrace, orOut, llm, tables, inv, apiCalls, otpImpl, otpStore, otpLast, otpSeq, otpVerified>>

\* The first call again, on identical arguments.
ComputeScoreAgain ==
    /\ pc = "sc_done"
    /\ scOut' = ComputeScoreResult(scIn.sector, scIn.em, scIn.um)
    /\ UNCHANGED <<pc, clock, emIn, emOut, scIn, scFirst, scOther, ccIn, ccOut, cmIn, cmOut, rvIn, rvOut, orIn, orTrace, orOut, llm, tables, inv, apiCalls, otpImpl, otpStore, otpLast, otpSeq, otpVerified>>

NextScore == ComputeScore \/ Tick \/ ComputeScoreOther \/ ComputeScoreAgain

SpecScore == InitScore /\ [][NextScore]_vars

(***************************************************************************)
(* carbon_credit.py: CarbonCreditAggregator.                                *)
(* Tonnes are integers in 1/1000000 tonne (grams), the tonnes_co2 of a      *)
(* credit in 1/1000 tonne, percentages in hundredths, prices in USD/tonne.  *)
(***************************************************************************)
StandardOrder == <<"VCS", "Gold_Standard", "CDM">>

StandardNames == {StandardOrder[i] : i \in 1 .. Len(StandardOrder)}

standards ==
    [VCS |-> [min_tonnes_individual |-> 1000000, min_tonnes_pooled |-> 100000,
              buffer_percentage |-> 15, price_usd_per_tonne |-> 12,
              verification_cost_usd |-> 50, pooling_fee_percentage |-> 8],
     Gold_Standard |->
             [min_tonnes_individual |-> 2000000, min_tonnes_pooled |-> 200000,
              buffer_percentage |-> 20, price_usd_per_tonne |-> 18,
              verification_cost_usd |-> 75, pooling_fee_percentage |-> 10],
     CDM |-> [min_tonnes_individual |-> 5000000, min_tonnes_pooled |-> 500000,
              buffer_percentage |-> 10, price_usd_per_tonne |-> 8,
              verification_cost_usd |-> 100, pooling_fee_percentage |-> 12]]

\* models.CarbonCredit: the fields without a default, and the literals its
\* status field accepts.
CarbonCreditRequired ==
    {"user_id", "evidence_ids", "verified_co2_tonnes", "credits_eligible"}

CarbonCreditStatuses == {"pending", "verified", "issued"}

\* The keyword arguments _calculate_credit_for_standard passes to CarbonCredit.
CreditKwargs ==
    {"id", "user_id", "evidence_id", "standard", "tonnes_co2", "annual_tonnes",
     "project_lifetime_years", "buffer_percentage", "gross_value_usd",
     "net_value_usd", "verification_cost_usd", "pooling_fee_usd", "status",
     "approach", "estimated_issuance", "sector", "additionality_verified",
     "created_at"}

\* Pydantic's validation of a CarbonCredit(**kwargs) call: every required
\* field is supplied and the status is one of the literals.
CarbonCreditValidates(kwargs, status) ==
    /\ CarbonCreditRequired \subseteq kwargs
    /\ "status" \in kwargs => status \in CarbonCreditStatuses

\* _check_additionality; co2_kg_total in grams, confidence in 1/1000.
CheckAdditionalityAtLeast(co2_kg_total, confidence) ==
    IF confidence < 500 THEN FALSE
    ELSE co2_kg_total >= 100000

CheckAdditionality(co2_kg_total, confidence) ==
    IF confidence < 500 THEN FALSE
    ELSE co2_kg_total > 100000

\* annual tonnes * lifetime * (1 - buffer), in grams of CO2; co2_kg_total is
\* a whole number of kilograms here.
NetCo2Tonnes(co2_kg_total, lifetime, cfg) ==
    (co2_kg_total \div 1000) * lifetime * (100 - cfg.buffer_percentage) * 10

\* round(eligible_tonnes) to a whole tonne, in 1/1000 tonne.
RoundTonnesWhole(net) == 1000 * RoundHalfEven(net, 1000000)

\* round(eligible_tonnes, 3), in 1/1000 tonne.
RoundTonnes(net) == RoundHalfEven(net, 1000)

\* The approach chosen for a net amount; "none" below the pooled minimum.
Approach(net, cfg) ==
    IF net >= cfg.min_tonnes_individual THEN "individual"
    ELSE IF net >= cfg.min_tonnes_pooled THEN "pooled"
    ELSE "none"

\* A status rule that asks for a confidence above 0.8, not at least 0.8.
CreditStatusAboveEighty(net, confidence, cfg) ==
    IF confidence > 800 /\ net >= cfg.min_tonnes_individual THEN "eligible"
    ELSE IF confidence >= 600 /\ net >= cfg.min_tonnes_pooled THEN "pooling_eligible"
    ELSE "pending_verification"

\* The status of a credit, from the confidence and the unrounded net tonnes.
CreditStatus(net, confidence, cfg) ==
    IF confidence >= 800 /\ net >= cfg.min_tonnes_individual THEN "eligible"
    ELSE IF confidence >= 600 /\ net >= cfg.min_tonnes_pooled THEN "pooling_eligible"
    ELSE "pending_verification"

\* The values handed to the CarbonCredit constructor (money in cents).
CreditArguments(name, co2_kg_total, lifetime, confidence, sector) ==
    LET cfg == standards[name]
        net == NetCo2Tonnes(co2_kg_total, lifetime, cfg)
        approach == Approach(net, cfg)
        gross == (net \div 50) * cfg.price_usd_per_tonne
        fee == IF approach = "pooled" THEN gross * cfg.pooling_fee_percentage ELSE 0
    IN [standard |-> name,
        tonnes_co2 |-> RoundTonnes(net),
        annual_tonnes |-> RoundHalfEven(co2_kg_total, 1000),
        project_lifetime_years |-> lifetime,
        buffer_percentage |-> cfg.buffer_percentage,
        gross_value_usd |-> RoundHalfEven(gross, 200),
        net_value_usd |->
            IF approach = "pooled"
            THEN RoundHalfEven(gross * 100 - fee
                                 - cfg.verification_cost_usd * 200000, 20000)
            ELSE RoundHalfEven(gross - cfg.verification_cost_usd * 20000, 200),
        verification_cost_usd |->
            IF approach = "individual" THEN cfg.verification_cost_usd * 100
            ELSE cfg.verification_cost_usd * 10,
        pooling_fee_usd |-> RoundHalfEven(fee, 20000),
        status |-> CreditStatus(net, confidence, cfg),
        approach |-> approach,
        sector |-> sector,
        additionality_verified |-> TRUE]

\* _calculate_credit_for_standard: None below the pooled minimum, None when
\* the constructor raises (the except branch), the credit otherwise.
CalculateCreditForStandard(name, co2_kg_total, lifetime, confidence, sector) ==
    LET args == CreditArguments(name, co2_kg_total, lifetime, confidence, sector)
    IN IF args.approach = "none" THEN None
       ELSE IF CarbonCreditValidates(CreditKwargs, args.status) THEN Some(args)
       ELSE None

\* The standards whose credit reached the constructor.
ConstructedFor(co2_kg_total, lifetime) ==
    {name \in StandardNames :
        Approach(NetCo2Tonnes(co2_kg_total, lifetime, standards[name]),
                 standards[name]) # "none"}

RECURSIVE CreditsFrom(_, _, _, _, _)
\* The loop over self.standards.items() from position i on.
CreditsFrom(i, co2_kg_total, lifetime, confidence, sector) ==
    IF i > Len(StandardOrder) THEN <<>>
    ELSE LET credit == CalculateCreditForStandard(StandardOrder[i], co2_kg_total,
                                                  lifetime, confidence, sector)
             rest == CreditsFrom(i + 1, co2_kg_total, lifetime, confidence, sector)
         IN IF credit # None THEN <<Val(credit)>> \o rest ELSE rest

\* calculate_carbon_credits: the list returned, with the standards the loop
\* evaluated and the constructor arguments it built on the way.
CalculateCarbonCreditsResult(co2_kg_total, confidence, lifetime, sector) ==
    IF ~CheckAdditionality(co2_kg_total, confidence)
    THEN [kind |-> "credits", is_additional |-> FALSE, evaluated |-> {},
          constructed |-> {}, credits |-> <<>>]
    ELSE [kind |-> "credits", is_additional |-> TRUE,
          evaluated |-> StandardNames,
          constructed |->
              {CreditArguments(name, co2_kg_total, lifetime, confidence, sector) :
                  name \in ConstructedFor(co2_kg_total, lifetime)},
          credits |-> CreditsFrom(1, co2_kg_total, lifetime, confidence, sector)]

(***************************************************************************)
(* Specification of calculate_carbon_credits: one call on every input.     *)
(***************************************************************************)
\* The longest project lifetime, in years.
MaxLifetime == 5

\* co2_kg_total of the emission result, in kilograms: below, at and above
\* the 100 kg floor, either side of a pooled and of an individual minimum,
\* and a negative total.
CreditCo2Kg == {-240, 50, 100, 101, 111, 112, 117, 118, 250, 1176, 1177, 2000}

CreditInputs ==
    [co2_kg_total : {1000 * kg : kg \in CreditCo2Kg},
     confidence : {400, 500, 600, 800, 900},
     lifetime : 1 .. MaxLifetime,
     sector : {"farmer", "Bakery"}]

InitCredit ==
    /\ pc = "cc_called"
    /\ clock = 0
    /\ ccIn \in CreditInputs
    /\ ccOut = NoResult
    /\ EmIdle /\ ScoreIdle /\ ConfidenceIdle
    /\ ReviewIdle /\ OrchestratorIdle
    /\ LlmIdle
    /\ SharedIdle
    /\ FetchIdle
    /\ OtpIdle
    /\ OtpHistoryIdle

CalculateCarbonCredits ==
    /\ pc = "cc_called"
    /\ ccOut' = CalculateCarbonCreditsResult(ccIn.co2_kg_total, ccIn.confidence,
                                             ccIn.lifetime, ccIn.sector)
    /\ pc' = "cc_done"
    /\ UNCHANGED <<clock, emIn, emOut, scIn, scOut, scFirst, scOther, ccIn, cmIn, cmOut, rvIn, rvOut, orIn, orTrace, orOut, llm, tables, inv, apiCalls, otpImpl, otpStore, otpLast, otpSeq, otpVerified>>

\* A selection for the pool that takes every pooled credit, whatever its
\* status.
PooledCreditsAnyStatus(cs) == {c \in cs : c.approach = "pooled"}

\* aggregate_pool_credits: the credits it selects for the pool.
PooledCredits(cs) ==
    {c \in cs : c.approach = "pooled"
                   /\ c.status \in {"pooling_eligible", "eligible"}}

RECURSIVE SumTonnes(_)
\* sum(c.tonnes_co2 for c in pooled_credits), in 1/1000 tonne.
SumTonnes(cs) ==
    IF cs = {} THEN 0
    ELSE LET c == CHOOSE x \in cs : TRUE
         IN c.tonnes_co2 + SumTonnes(cs \ {c})

\* The dictionary aggregate_pool_credits returns for the credits cs.
AggregatePoolCreditsResult(cs) ==
    LET pooled == PooledCredits(cs)
    IN IF pooled = {}
       THEN [status |-> "no_eligible_credits", pooled_credits |-> {},
             pools |-> {}, total_participants |-> 0, total_tonnes |-> 0]
       ELSE [status |-> "pooled", pooled_credits |-> pooled,
             pools |-> {c.standard : c \in pooled},
             total_participants |-> Cardinality(pooled),
             total_tonnes |-> SumTonnes(pooled)]

\* aggregate_pool_credits on the credits of the call: on the list returned,
\* or on the credits the constructor was called for.
AggregatePoolCredits ==
    /\ pc = "cc_done"
    /\ \E given \in {"returned", "constructed"} :
          LET cs == IF given = "returned"
                    THEN {ccOut.credits[i] : i \in 1 .. Len(ccOut.credits)}
                    ELSE ccOut.constructed
          IN ccOut' = [kind |-> "pool", given |-> given,
                       is_additional |-> ccOut.is_additional,
                       evaluated |-> ccOut.evaluated,
                       constructed |-> ccOut.constructed,
                       credits |-> ccOut.credits,
                       pool |-> AggregatePoolCreditsResult(cs)]
    /\ pc' = "cc_pooled"
    /\ UNCHANGED <<clock, emIn, emOut, scIn, scOut, scFirst, scOther, ccIn, cmIn,
                   cmOut, rvIn, rvOut, orIn, orTrace, orOut, llm, tables, inv,
                   apiCalls, otpImpl, otpStore, otpLast, otpSeq, otpVerified>>

NextCredit == CalculateCarbonCredits \/ AggregatePoolCredits

SpecCredit == InitCredit /\ [][NextCredit]_vars

(***************************************************************************)
(* confidence_manager.py: ConfidenceManager.                                *)
(* Confidences are integers in 1/1000, the weighted final confidence in     *)
(* 1/100000 before its rounding, money in cents.                            *)
(***************************************************************************)
thresholdsRejectAboveApprove ==
    [auto_approve |-> 850, human_review |-> 600, auto_reject |-> 900,
     high_value_review |-> 700]

thresholdsRejectAboveReview ==
    [auto_approve |-> 850, human_review |-> 600, auto_reject |-> 700,
     high_value_review |-> 700]

thresholdsReviewBelowHalf ==
    [auto_approve |-> 850, human_review |-> 500, auto_reject |-> 300,
     high_value_review |-> 700]

thresholds ==
    [auto_approve |-> 850, human_review |-> 600, auto_reject |-> 300,
     high_value_review |-> 700]

value_thresholds == [carbon_credit_value |-> 10000]

fraud_patterns ==
    [rapid_submissions_max |-> 5, duplicate_evidence_max_similar |-> 3,
     suspicious_amounts_max |-> 10000000]

\* The weights of evaluate_confidence, in hundredths.
confidence_weights ==
    [ai_processing |-> 40, data_quality |-> 25, user_credibility |-> 15,
     sector_consistency |-> 10, fraud_risk |-> 10]

ComponentNames == DOMAIN confidence_weights

Clamp01(x) == Max(0, Min(1000, x))

\* The attributes an ai_result has.  models.AIOrchestrationResult declares
\* confidence and carbon_credits but neither greenscore_result nor
\* processing_time_ms; a "pipeline" result is an object that carries all the
\* attributes the manager reads.
HasAttr(ai, name) ==
    \/ ai.shape = "pipeline"
    \/ name \in {"confidence", "carbon_credits"}

\* `if ai_result.carbon_credits:` is true for a CarbonCredit model and for a
\* non-empty list.
CreditsTruthy(ai) ==
    \/ ai.carbon_credits.kind = "model"
    \/ ai.carbon_credits.kind = "list" /\ ai.carbon_credits.values # <<>>

\* Iterating a CarbonCredit model yields (field, value) pairs, which have no
\* net_value_usd: the generator over the credits raises.
CreditsIterationRaises(ai) == ai.carbon_credits.kind = "model"

RECURSIVE SumSeq(_)
SumSeq(q) == IF q = <<>> THEN 0 ELSE Head(q) + SumSeq(Tail(q))

MaxSeq(q) == CHOOSE m \in {q[i] : i \in 1 .. Len(q)} : \A i \in 1 .. Len(q) : q[i] <= m

\* _assess_data_quality; 300 is the value of its except branch.
AssessDataQuality(ai) ==
    IF ~HasAttr(ai, "greenscore_result") THEN 300
    ELSE LET gs == ai.greenscore_result
             a == IF gs = None THEN 500
                  ELSE 500
                       + (IF Val(gs).subscores >= 3 THEN 200 ELSE 0)
                       + (IF Val(gs).explainers >= 2 THEN 100 ELSE 0)
                       + (IF Val(gs).provenance >= 5 THEN 100 ELSE 0)
                       - (IF Val(gs).greenscore > 95 \/ Val(gs).greenscore < 5
                          THEN 200 ELSE 0)
             b == IF ai.processing_time_ms < 100 THEN a - 100
                  ELSE IF ai.processing_time_ms > 30000 THEN a - 50
                  ELSE a
         IN Clamp01(b)

\* _assess_user_credibility; a key the history lacks reads as its default.
AssessUserCredibility(h) ==
    Clamp01(500
            + (IF h.account_age_days > 365 THEN 200
               ELSE IF h.account_age_days > 90 THEN 100
               ELSE IF h.account_age_days < 7 THEN -200 ELSE 0)
            + (IF h.previous_submissions > 10 THEN 150
               ELSE IF h.previous_submissions > 3 THEN 100 ELSE 0)
            + ((h.approval_rate - 500) * 4) \div 10
            - h.fraud_flags * 200
            + (IF h.phone_verified THEN 50 ELSE 0)
            + (IF h.business_registered THEN 100 ELSE 0))

\* _assess_sector_consistency; 700 is its base score and the value of its
\* except branch.
AssessSectorConsistency(ai, ctx) ==
    IF ~HasAttr(ai, "greenscore_result") THEN 700
    ELSE IF ai.greenscore_result = None THEN 700
    ELSE LET d == Abs(Val(ai.greenscore_result).greenscore - ctx.average_greenscore)
             std == ctx.std_greenscore
             a == IF std > 0 /\ d > 3 * std THEN 400
                  ELSE IF std > 0 /\ d > 2 * std THEN 600
                  ELSE 700
             b == IF CreditsTruthy(ai)
                     /\ SumSeq(ai.carbon_credits.values) > ctx.average_credit_value * 500
                  THEN a - 200 ELSE a
         IN Clamp01(b)

\* _assess_fraud_risk; 100 is the value of its except branch.
AssessFraudRisk(ai, h) ==
    IF CreditsTruthy(ai) /\ CreditsIterationRaises(ai) THEN 100
    ELSE IF ~HasAttr(ai, "greenscore_result") THEN 100
    ELSE Min(1000,
             (IF h.submissions_last_24h > fraud_patterns.rapid_submissions_max
              THEN 300 ELSE 0)
             + (IF h.similar_evidence_count > fraud_patterns.duplicate_evidence_max_similar
                THEN 400 ELSE 0)
             + (IF CreditsTruthy(ai)
                   /\ MaxSeq(ai.carbon_credits.values) > fraud_patterns.suspicious_amounts_max
                THEN 300 ELSE 0)
             + (IF h.location_inconsistency THEN 200 ELSE 0)
             + (IF ai.greenscore_result # None
                   /\ Val(ai.greenscore_result).greenscore >= 98
                THEN 100 ELSE 0))

\* components["ai_processing"] = ai_result.confidence
AiProcessing(ai) == ai.confidence

\* _calculate_component_confidences
CalculateComponentConfidences(ai, h, ctx) ==
    [ai_processing |-> AiProcessing(ai),
     data_quality |-> AssessDataQuality(ai),
     user_credibility |-> AssessUserCredibility(h),
     sector_consistency |-> AssessSectorConsistency(ai, ctx),
     fraud_risk |-> 1000 - AssessFraudRisk(ai, h)]

\* sum(components[c] * weight), in 1/100000.
FinalConfidence(components) ==
    SumOver([c \in ComponentNames |-> components[c] * confidence_weights[c]],
            ComponentNames)

\* _determine_review_requirements, for a confidence in 1/100000.  The
\* triggers run in the order of the code and each may overwrite the priority.
DetermineReviewRequirements(confidence, ai, components) ==
    LET low == confidence < thresholds.human_review * 100
        high_value ==
            /\ CreditsTruthy(ai)
            /\ SumSeq(ai.carbon_credits.values) > value_thresholds.carbon_credit_value
        fraud == components.fraud_risk < 700
        outlier == components.sector_consistency < 500
        new_user == components.user_credibility < 400
        p1 == IF low THEN "medium" ELSE "low"
        p2 == IF high_value /\ confidence < thresholds.high_value_review * 100
              THEN "high" ELSE p1
        p3 == IF fraud THEN "high" ELSE p2
        p4 == IF outlier THEN "medium" ELSE p3
        reasons ==
            (IF low THEN <<"low_confidence">> ELSE <<>>)
            \o (IF high_value THEN <<"high_value_claim">> ELSE <<>>)
            \o (IF fraud THEN <<"fraud_risk">> ELSE <<>>)
            \o (IF outlier THEN <<"sector_outlier">> ELSE <<>>)
            \o (IF new_user THEN <<"new_user">> ELSE <<>>)
    IN [required |-> Len(reasons) > 0, reasons |-> reasons, priority |-> p4]

\* The except branch of evaluate_confidence.  The dictionary it returns has
\* only the keys listed in `keys`; the other fields are placeholders.
ConfidenceErrorResult ==
    [kind |-> "assessment",
     keys |-> {"final_confidence", "review_required", "review_reasons", "error"},
     final_confidence |-> 300,
     component_confidences |-> [c \in ComponentNames |-> 0],
     review_required |-> TRUE,
     review_reasons |-> <<"manual_request">>,
     review_priority |-> "low",
     auto_approve |-> FALSE,
     auto_reject |-> FALSE]

\* evaluate_confidence.  _determine_review_requirements is the one helper
\* without a try of its own: when it raises, the except branch answers.
EvaluateConfidenceResult(ai, h, ctx) ==
    LET components == CalculateComponentConfidences(ai, h, ctx)
        final == FinalConfidence(components)
    IN IF CreditsTruthy(ai) /\ CreditsIterationRaises(ai)
       THEN ConfidenceErrorResult
       ELSE LET review == DetermineReviewRequirements(final, ai, components)
            IN [kind |-> "assessment",
                keys |-> {"final_confidence", "component_confidences",
                          "review_required", "review_reasons", "review_priority",
                          "auto_approve", "auto_reject", "confidence_factors"},
                final_confidence |-> RoundHalfEven(final, 100),
                component_confidences |-> components,
                review_required |-> review.required,
                review_reasons |-> review.reasons,
                review_priority |-> review.priority,
                auto_approve |-> final >= thresholds.auto_approve * 100,
                auto_reject |-> final <= thresholds.auto_reject * 100]

(***************************************************************************)
(* Specification of evaluate_confidence: one call on every input.          *)
(***************************************************************************)
\* The greenscore_result of a pipeline result: its greenscore and the sizes
\* of its subscores, explainers and provenance.
GreenScoreSummaries ==
    {None,
     Some([greenscore |-> 50, subscores |-> 5, explainers |-> 3, provenance |-> 5]),
     Some([greenscore |-> 99, subscores |-> 2, explainers |-> 1, provenance |-> 0])}

NoCredits == [kind |-> "none", values |-> <<>>]

\* Lists of credits by their net_value_usd: empty, under and over 100 USD in
\* total, and one over the suspicious amount.
CreditLists ==
    {[kind |-> "list", values |-> v] :
        v \in {<<>>, <<4000, 5000>>, <<15000>>, <<15000000>>}}

\* The confidence of the incoming result, out-of-range values included:
\* the field is a plain float.
AiConfidences == {-200, 300, 550, 900, 1500}

AiResults ==
    [shape : {"AIOrchestrationResult"}, confidence : AiConfidences,
     greenscore_result : {None}, processing_time_ms : {0},
     carbon_credits : {NoCredits, [kind |-> "model", values |-> <<>>]}]
    \cup
    [shape : {"pipeline"}, confidence : AiConfidences,
     greenscore_result : GreenScoreSummaries, processing_time_ms : {50, 1000},
     carbon_credits : {NoCredits} \cup CreditLists]

\* user_history after its .get defaults (an absent history is all defaults).
UserHistories ==
    [account_age_days : {0, 100, 400}, previous_submissions : {0, 11},
     approval_rate : {0, 500, 1000}, fraud_flags : {0, 1},
     phone_verified : BOOLEAN, business_registered : BOOLEAN,
     submissions_last_24h : {0, 6}, similar_evidence_count : {0, 4},
     location_inconsistency : BOOLEAN]

\* sector_context after its .get defaults, and a narrow sector.
SectorContexts ==
    {[average_greenscore |-> 50, std_greenscore |-> 20, average_credit_value |-> 50],
     [average_greenscore |-> 10, std_greenscore |-> 10, average_credit_value |-> 10]}

ConfidenceInputs ==
    [ai_result : AiResults, user_history : UserHistories,
     sector_context : SectorContexts]

InitConfidence ==
    /\ pc = "cm_called"
    /\ clock = 0
    /\ cmIn \in ConfidenceInputs
    /\ cmOut = NoResult
    /\ EmIdle /\ ScoreIdle /\ CreditIdle
    /\ ReviewIdle /\ OrchestratorIdle
    /\ LlmIdle
    /\ SharedIdle
    /\ FetchIdle
    /\ OtpIdle
    /\ OtpHistoryIdle

EvaluateConfidence ==
    /\ pc = "cm_called"
    /\ cmOut' = EvaluateConfidenceResult(cmIn.ai_result, cmIn.user_history,
                                         cmIn.sector_context)
    /\ pc' = "cm_done"
    /\ UNCHANGED <<clock, emIn, emOut, scIn, scOut, scFirst, scOther, ccIn, ccOut, cmIn, rvIn, rvOut, orIn, orTrace, orOut, llm, tables, inv, apiCalls, otpImpl, otpStore, otpLast, otpSeq, otpVerified>>

NextConfidence == EvaluateConfidence

SpecConfidence == InitConfidence /\ [][NextConfidence]_vars

\* The carbon entry of the subscores compute_score returns for an emission
\* result (it does not depend on user_metrics).
CarbonSubscore(em, sector) ==
    ApplySectorWeights(CalculateSubscores(em.co2_kg_total, NoMetrics),
                       GetSectorWeights(sector)).carbon

(***************************************************************************)
(* Claims about calculate_emissions (checked under SpecEm)                 *)
(***************************************************************************)

\* C2: every EmissionResult returned has co2_kg_total equal to the sum of
\* the values of its co2_kg_components, whatever features are present, the
\* all-absent input and the error-fallback result included.
C2_TotalIsComponentSum ==
    pc = "em_done" =>
        emOut.co2_kg_total =
            SumOver(emOut.co2_kg_components, DOMAIN emOut.co2_kg_components)

\* A returned result with at least three components, water among them.
C2_Witness ==
    /\ pc = "em_done"
    /\ Cardinality(DOMAIN emOut.co2_kg_components) >= 3
    /\ "water" \in DOMAIN emOut.co2_kg_components
    /\ emOut.co2_kg_total # 0

\* C3: for every input, negative feature values included, the returned
\* co2_kg_total is >= 0.
C3_TotalNonNegative ==
    pc = "em_done" => emOut.co2_kg_total >= 0

\* C9: raising one feature value, everything else held fixed, never lowers
\* co2_kg_total nor the carbon subscore compute_score derives from it.
\* Stated on the inputs with no negative feature value, so that a violation
\* does not rest on the negative totals of C3.
C9_Monotone ==
    [][(/\ pc = "em_done" /\ pc' = "em_done"
        /\ \A f \in FeatureNames : OrZero(emIn.features[f]) >= 0) =>
          /\ emOut'.co2_kg_total >= emOut.co2_kg_total
          /\ \A sector \in Sectors :
                CarbonSubscore(emOut', sector) >= CarbonSubscore(emOut, sector)]_vars

(***************************************************************************)
(* Claims about compute_score (checked under SpecScore)                    *)
(***************************************************************************)
WeightedSum(result) == SumOver(result.subscores, DOMAIN result.subscores)

\* C1: for every input the greenscore returned by compute_score is an
\* integer between 0 and 100, and it is the sum of the returned weighted
\* subscores rounded to the nearest integer and then clamped to [0,100]
\* (either neighbour is accepted on an exact half).
C1_GreenScoreRoundedClamped ==
    pc = "sc_done" =>
        LET s == WeightedSum(scOut)
            g == scOut.greenscore
        IN /\ g \in 0 .. 100
           /\ \/ g = 0 /\ 2 * s <= WeightedScale
              \/ g = 100 /\ 2 * s >= 199 * WeightedScale
              \/ 2 * Abs(g * WeightedScale - s) <= WeightedScale

\* A returned score whose weighted pillar sum exceeds 100 points.
C1_Witness ==
    /\ pc = "sc_done"
    /\ WeightedSum(scOut) > 100 * WeightedScale
    /\ scOut.greenscore = 100

GatePassed == ccIn.confidence >= 500 /\ ccIn.co2_kg_total > 100000

NetFor(name) == NetCo2Tonnes(ccIn.co2_kg_total, ccIn.lifetime, standards[name])

CreditsOf(name) ==
    {i \in 1 .. Len(ccOut.credits) : ccOut.credits[i].standard = name}

\* C5: the returned list holds a credit for standard X exactly when the
\* gate passed and X's net tonnes reach X's pooled minimum, and it never
\* holds two credits of one standard.
C5_CreditIffEligible ==
    pc = "cc_done" =>
        \A name \in StandardNames :
            /\ CreditsOf(name) # {} <=>
                  (GatePassed /\ NetFor(name) >= standards[name].min_tonnes_pooled)
            /\ Cardinality(CreditsOf(name)) <= 1

C7_ApproachAndScenario ==
    pc = "cc_done" =>
        /\ \A i \in 1 .. Len(ccOut.credits) :
              LET c == ccOut.credits[i]
                  cfg == standards[c.standard]
              IN /\ NetFor(c.standard) >= cfg.min_tonnes_individual
                      => c.approach = "individual"
                 /\ (NetFor(c.standard) >= cfg.min_tonnes_pooled
                     /\ NetFor(c.standard) < cfg.min_tonnes_individual)
                      => c.approach = "pooled"
        /\ (ccIn.co2_kg_total = 2000000 /\ ccIn.confidence = 900 /\ ccIn.lifetime = 5) =>
              \E i \in CreditsOf("VCS") :
                  /\ ccOut.credits[i].approach = "individual"
                  /\ ccOut.credits[i].status = "eligible"

\* The minimum of a standard for an approach, in grams.
MinimumFor(name, approach) ==
    IF approach = "individual" THEN standards[name].min_tonnes_individual
    ELSE standards[name].min_tonnes_pooled

C4_ConfidencesInUnitInterval ==
    /\ pc = "em_done" => emOut.confidence \in 0 .. 1000
    /\ pc = "sc_done" => scOut.confidence \in 0 .. 1000
    /\ pc = "cm_done" =>
          /\ cmOut.final_confidence \in 0 .. 1000
          /\ "component_confidences" \in cmOut.keys =>
                \A c \in ComponentNames : cmOut.component_confidences[c] \in 0 .. 1000

(***************************************************************************)
(* Claims about the failure handling of calculate_emissions (SpecEm)       *)
(***************************************************************************)
\* An exception was raised somewhere inside the call.
EmissionFailure ==
    \/ FactorResolutionRaises(emIn.region)
    \/ ComputationRaises(emIn.features,
                         GetEmissionFactors(emIn.api_key, emIn.region, emIn.outcome).f)

\* C11: a call of calculate_emissions in which anything failed, the
\* resolution of the emission factors included, returns the error-fallback
\* result: total 0, no components, method error_fallback, confidence 0.1.
C11_FailureGivesFallback ==
    (pc = "em_done" /\ EmissionFailure) =>
        /\ emOut.co2_kg_total = 0
        /\ DOMAIN emOut.co2_kg_components = {}
        /\ emOut.method = "error_fallback"
        /\ emOut.confidence = 100

\* The call asked for 100 kWh saved and nothing else.
OnlyKwh100 == emIn.features = [NoFeatures EXCEPT !.kwh_saved = Some(100)]

\* C12: the factors come from the API only with a key and region Kenya;
\* with no key or a failed API call region Kenya uses the local Kenya table
\* (0.45 kg/kWh: 100 kWh give energy_grid_kwh = 45.0 and total 45.0); a
\* numeric API factor replaces the grid factor; any other region uses the
\* global table (0.52 kg/kWh) and still returns a well-formed result.
C12_FactorPrecedence ==
    pc = "em_done" =>
        LET is_kenya == emIn.region # "NoneRegion" /\ Lower(emIn.region) = "kenya"
            other == emIn.region # "NoneRegion" /\ Lower(emIn.region) # "kenya"
            api_failed == ~emIn.api_key \/ emIn.outcome \in {"error", "empty"}
            kwh == emIn.features.kwh_saved
            grid(k) == Truthy(kwh) => emOut.co2_kg_components.energy_grid_kwh = Val(kwh) * k
        IN /\ emOut.ef_source = "climatiq" => (emIn.api_key /\ is_kenya)
           /\ (is_kenya /\ api_failed) =>
                 /\ emOut.ef_source = "local_kenya"
                 /\ grid(450)
                 /\ OnlyKwh100 => emOut.co2_kg_total = 45000
           /\ (is_kenya /\ emIn.api_key /\ emIn.outcome = "factor") =>
                 (emOut.ef_source = "climatiq" /\ grid(300))
           /\ other =>
                 /\ emOut.ef_source = "global_fallback"
                 /\ emOut.method # "error_fallback"
                 /\ grid(520)
                 /\ OnlyKwh100 => emOut.co2_kg_total = 52000

\* Region Kenya with a configured key whose API call failed, 100 kWh saved.
C12_Witness ==
    /\ pc = "em_done"
    /\ emIn.region = "Kenya" /\ emIn.api_key /\ emIn.outcome = "error"
    /\ OnlyKwh100
    /\ emOut.co2_kg_total = 45000

(***************************************************************************)
(* Claims about the failure handling of compute_score (SpecScore)          *)
(***************************************************************************)
\* An exception was raised somewhere inside the call.
ScoreFailure == MetricRaises(scIn.um) \/ ScoreConfidenceRaises(scIn.um)

\* C13: a call of compute_score in which any exception was raised returns
\* the zero-score result: greenscore 0, confidence 0.1 and exactly one
\* explainer.
C13_ExceptionGivesZeroScore ==
    (pc = "sc_done" /\ ScoreFailure) =>
        /\ scOut.greenscore = 0
        /\ scOut.confidence = 100
        /\ Len(scOut.explainers) = 1

(***************************************************************************)
(* Claims about evaluate_confidence (SpecConfidence)                       *)
(***************************************************************************)
\* An exception was raised somewhere inside the call: reading an attribute
\* the result does not have, or iterating a CarbonCredit model as a list.
ConfidenceFailure ==
    \/ ~HasAttr(cmIn.ai_result, "greenscore_result")
    \/ CreditsTruthy(cmIn.ai_result) /\ CreditsIterationRaises(cmIn.ai_result)

\* C14: a call of evaluate_confidence in which anything failed returns the
\* degraded result: final_confidence 0.3, review_required true and the
\* reasons [manual_request].  Stated on incoming results whose own
\* confidence lies in [0,1], so that a violation does not rest on C4.
C14_FailureGivesDegraded ==
    (pc = "cm_done" /\ ConfidenceFailure /\ cmIn.ai_result.confidence \in 0 .. 1000) =>
        /\ cmOut.final_confidence = 300
        /\ cmOut.review_required
        /\ cmOut.review_reasons = <<"manual_request">>

\* C15: an assessment returned by evaluate_confidence never has auto_approve
\* and auto_reject both true; auto_approve is the final confidence being at
\* least 0.85, auto_reject its being at most 0.30.
C15_ApproveRejectExclusive ==
    pc = "cm_done" => ~(cmOut.auto_approve /\ cmOut.auto_reject)

C15_Witness ==
    /\ pc = "cm_done"
    /\ cmIn.ai_result.confidence \in 0 .. 1000
    /\ cmOut.auto_approve
    /\ ~cmOut.auto_reject
    /\ cmOut.final_confidence >= 850

(***************************************************************************)
(* Specification of _determine_review_requirements: one call on every      *)
(* final confidence (1/100000), credit list and component table.           *)
(***************************************************************************)
ReviewConfidences == {20000, 30000, 55000, 59950, 60000, 65000, 69950, 70000, 90000}

ReviewComponents ==
    [ai_processing : {500}, data_quality : {500},
     user_credibility : {300, 400, 500},
     sector_consistency : {200, 450, 500, 700},
     fraud_risk : {300, 600, 700, 1000}]

\* The credit lists of evaluate_confidence and one of exactly 100 USD.
ReviewCreditLists == CreditLists \cup {[kind |-> "list", values |-> <<4000, 6000>>]}

ReviewAiResults ==
    [shape : {"pipeline"}, confidence : {500}, greenscore_result : {None},
     processing_time_ms : {1000}, carbon_credits : {NoCredits} \cup ReviewCreditLists]

ReviewInputs ==
    [confidence : ReviewConfidences, ai_result : ReviewAiResults,
     components : ReviewComponents]

InitReview ==
    /\ pc = "rv_called"
    /\ clock = 0
    /\ rvIn \in ReviewInputs
    /\ rvOut = NoResult
    /\ EmIdle /\ ScoreIdle /\ CreditIdle /\ ConfidenceIdle /\ OrchestratorIdle
    /\ LlmIdle
    /\ SharedIdle
    /\ FetchIdle
    /\ OtpIdle
    /\ OtpHistoryIdle

DetermineReview ==
    /\ pc = "rv_called"
    /\ rvOut' = DetermineReviewRequirements(rvIn.confidence, rvIn.ai_result,
                                             rvIn.components)
    /\ pc' = "rv_done"
    /\ UNCHANGED <<clock, emIn, emOut, scIn, scOut, scFirst, scOther, ccIn, ccOut,
                   cmIn, cmOut, rvIn, orIn, orTrace, orOut, llm, tables, inv, apiCalls, otpImpl, otpStore, otpLast, otpSeq, otpVerified>>

NextReview == DetermineReview

SpecReview == InitReview /\ [][NextReview]_vars

Contains(seq, x) == \E i \in 1 .. Len(seq) : seq[i] = x

\* The arguments of scenario E: final confidence 0.55, no carbon credits,
\* sector_consistency 0.45, no fraud and no credibility trigger.
ScenarioE ==
    /\ rvIn.confidence = 55000
    /\ ~CreditsTruthy(rvIn.ai_result)
    /\ rvIn.components.sector_consistency = 450
    /\ rvIn.components.fraud_risk >= 700
    /\ rvIn.components.user_credibility >= 400

\* C16: the decision of _determine_review_requirements has review required
\* exactly when its reasons are non-empty, and low_confidence among the
\* reasons exactly when the final confidence it was given is below 0.60; on
\* scenario E the review is required, the reasons contain low_confidence and
\* sector_outlier, and the priority is medium.
C16_ReviewDecision ==
    pc = "rv_done" =>
        /\ rvOut.required <=> Len(rvOut.reasons) > 0
        /\ Contains(rvOut.reasons, "low_confidence") <=> rvIn.confidence < 60000
        /\ ScenarioE =>
               /\ rvOut.required
               /\ Contains(rvOut.reasons, "low_confidence")
               /\ Contains(rvOut.reasons, "sector_outlier")
               /\ rvOut.priority = "medium"

C16_Witness ==
    /\ pc = "rv_done"
    /\ ScenarioE
    /\ rvOut.reasons = <<"low_confidence", "sector_outlier">>
    /\ rvOut.priority = "medium"

\* The assessment came from the ordinary return of evaluate_confidence, on
\* an incoming result whose own confidence lies in [0,1].
OrdinaryAssessment ==
    /\ pc = "cm_done"
    /\ "review_priority" \in cmOut.keys
    /\ cmIn.ai_result.confidence \in 0 .. 1000

\* The risk score of _assess_fraud_risk behind the returned component.
FraudRiskScore == 1000 - cmOut.component_confidences.fraud_risk

\* C17: the fraud_risk reason is among the reasons, and the priority is
\* high, exactly when the risk score before its inversion is at least 0.3,
\* a score of exactly 0.3 included.
C17_FraudRiskAtThreshold ==
    OrdinaryAssessment =>
        /\ Contains(cmOut.review_reasons, "fraud_risk") <=> FraudRiskScore >= 300
        /\ FraudRiskScore >= 300 => cmOut.review_priority = "high"

\* A trigger before the sector check raised the priority to high: the fraud
\* trigger, or the high-value trigger on a final confidence below 0.70.
EarlierHigh ==
    \/ Contains(rvOut.reasons, "fraud_risk")
    \/ /\ Contains(rvOut.reasons, "high_value_claim")
       /\ rvIn.confidence < thresholds.high_value_review * 100

\* C18: on sector_consistency below 0.5 the decision has the sector_outlier
\* reason and a priority of at least medium, and a priority that an earlier
\* trigger raised to high is returned as high.
C18_OutlierKeepsHigh ==
    (pc = "rv_done" /\ rvIn.components.sector_consistency < 500) =>
        /\ Contains(rvOut.reasons, "sector_outlier")
        /\ rvOut.priority \in {"medium", "high"}
        /\ EarlierHigh => rvOut.priority = "high"

\* sum(c.net_value_usd for c in ai_result.carbon_credits), in cents; zero
\* when there are no credits.
TotalValue == SumSeq(rvIn.ai_result.carbon_credits.values)

\* C19: the decision has the high_value_claim reason exactly when the net
\* values of the carbon credits sum to more than 100 USD, never without
\* credits; and with that reason the returned priority is high exactly when
\* the final confidence is below 0.70 or the fraud trigger fired.
C19_HighValueClaim ==
    pc = "rv_done" =>
        /\ Contains(rvOut.reasons, "high_value_claim") <=> TotalValue > 10000
        /\ ~CreditsTruthy(rvIn.ai_result) => ~Contains(rvOut.reasons, "high_value_claim")
        /\ Contains(rvOut.reasons, "high_value_claim") =>
               (rvOut.priority = "high" <=>
                    \/ rvIn.confidence < 70000
                    \/ Contains(rvOut.reasons, "fraud_risk"))

(***************************************************************************)
(* orchestrator.py: AIOrchestrator._deterministic_processing, one          *)
(* statement per step.  orTrace records the call and the return of every   *)
(* service method the run reaches.                                         *)
(***************************************************************************)
Call(stage) == [ev |-> "call", stage |-> stage]

Return(stage) == [ev |-> "return", stage |-> stage]

\* How the run came to the deterministic mode: process_request without a
\* Gemini model, or the except branch of _llm_orchestrated_processing.
Entries == {"no_model", "llm_fallback"}

\* What process_evidence returned: the processed evidence, or the minimal
\* result of its except branch.  Both are ProcessedEvidence models.
EvidenceOutcomes == {"processed", "minimal"}

\* Milliseconds between start_time and the return, as the clock saw them.
ProcessingTimes == {0, 120}

OrchestratorInputs ==
    [entry : Entries, sector : Sectors, region : Regions,
     processing_time_ms : ProcessingTimes]

InitOrchestrator ==
    /\ pc = "or_called"
    /\ clock = 0
    /\ orIn \in OrchestratorInputs
    /\ orTrace = <<>>
    /\ orOut = NoResult
    /\ EmIdle /\ ScoreIdle /\ CreditIdle /\ ConfidenceIdle /\ ReviewIdle
    /\ LlmIdle
    /\ SharedIdle
    /\ FetchIdle
    /\ OtpIdle
    /\ OtpHistoryIdle

\* Step 1: await self.evidence_processor.process_evidence(request.evidence).
CallProcessEvidence ==
    /\ pc = "or_called"
    /\ orTrace' = Append(orTrace, Call("process_evidence"))
    /\ pc' = "or_evidence"
    /\ UNCHANGED <<clock, emIn, emOut, scIn, scOut, scFirst, scOther, ccIn, ccOut,
                   cmIn, cmOut, rvIn, rvOut, orIn, orOut, llm, tables, inv, apiCalls, otpImpl, otpStore, otpLast, otpSeq, otpVerified>>

\* process_evidence returns a ProcessedEvidence either way (it has its own
\* except branch).
ProcessEvidenceReturns ==
    /\ pc = "or_evidence"
    /\ \E outcome \in EvidenceOutcomes :
           orOut' = [kind |-> "evidence", outcome |-> outcome]
    /\ orTrace' = Append(orTrace, Return("process_evidence"))
    /\ pc' = "or_subscript"
    /\ UNCHANGED <<clock, emIn, emOut, scIn, scOut, scFirst, scOther, ccIn, ccOut,
                   cmIn, cmOut, rvIn, rvOut, orIn, llm, tables, inv, apiCalls, otpImpl, otpStore, otpLast, otpSeq, otpVerified>>

\* evidence_result["ocr_result"]: a pydantic model is not subscriptable, the
\* statement raises TypeError and control goes to the except branch.
ReadOcrResult ==
    /\ pc = "or_subscript"
    /\ orOut' = [kind |-> "raised", error |-> "TypeError"]
    /\ pc' = "or_except"
    /\ UNCHANGED <<clock, emIn, emOut, scIn, scOut, scFirst, scOther, ccIn, ccOut,
                   cmIn, cmOut, rvIn, rvOut, orIn, orTrace, llm, tables, inv, apiCalls, otpImpl, otpStore, otpLast, otpSeq, otpVerified>>

\* The except branch: AIResult(success=False, error=str(e), ...).
ReturnFailure ==
    /\ pc = "or_except"
    /\ orOut' = [kind |-> "AIResult", success |-> FALSE, error |-> orOut.error,
                 processing_time_ms |-> orIn.processing_time_ms]
    /\ pc' = "or_done"
    /\ UNCHANGED <<clock, emIn, emOut, scIn, scOut, scFirst, scOther, ccIn, ccOut,
                   cmIn, cmOut, rvIn, rvOut, orIn, orTrace, llm, tables, inv, apiCalls, otpImpl, otpStore, otpLast, otpSeq, otpVerified>>

NextOrchestrator ==
    \/ CallProcessEvidence
    \/ ProcessEvidenceReturns
    \/ ReadOcrResult
    \/ ReturnFailure

SpecOrchestrator == InitOrchestrator /\ [][NextOrchestrator]_vars

\* The four stages of a pipeline run, in their order.
Chain ==
    <<"calculate_emissions", "compute_score", "calculate_carbon_credits",
      "evaluate_confidence">>

IsStage(e) == \E i \in 1 .. Len(Chain) : e.stage = Chain[i]

\* The stage calls and returns of the run so far.
StageEvents == SelectSeq(orTrace, IsStage)

\* Every stage called and returned, each after the one before it.
ChainEvents ==
    <<Call(Chain[1]), Return(Chain[1]), Call(Chain[2]), Return(Chain[2]),
      Call(Chain[3]), Return(Chain[3]), Call(Chain[4]), Return(Chain[4])>>

IsPrefix(s, t) == Len(s) <= Len(t) /\ s = SubSeq(t, 1, Len(s))

\* C20: in a run of the deterministic mode the stages run as the chain
\* emission calculation, score computation, carbon-credit calculation,
\* confidence evaluation: a stage starts only after the one before it
\* returned, the run reaches its stages, and a run reported as successful
\* has executed all four.
C20_StagesRunAsChain ==
    /\ IsPrefix(StageEvents, ChainEvents)
    /\ pc = "or_done" => Len(StageEvents) > 0
    /\ (pc = "or_done" /\ orOut.success) => StageEvents = ChainEvents

(***************************************************************************)
(* orchestrator.py: the LLM-driven mode.  process_request with a Gemini    *)
(* model calls _llm_orchestrated_processing, which runs                    *)
(* _execute_llm_workflow and falls back to _deterministic_processing from  *)
(* its except branch.  What Gemini answers is an input.                    *)
(***************************************************************************)
max_iterations == 10

\* The functions Gemini may ask for, by what their wrapper does when called:
\* _calculate_emissions passes keywords calculate_emissions does not take,
\* the other two validate the dictionaries Gemini supplied.
LlmFunctions ==
    {"calculate_emissions", "compute_greenscore", "calculate_carbon_credits",
     "not_available"}

FunctionOutcomes(fn) ==
    IF fn = "calculate_emissions" THEN {"raises"}
    ELSE IF fn = "not_available" THEN {"returns"}
    ELSE {"returns", "raises"}

LlmInputs == {r \in OrchestratorInputs : r.entry = "llm_fallback"}

InitLlm ==
    /\ pc = "llm_called"
    /\ clock = 0
    /\ orIn \in LlmInputs
    /\ orTrace = <<>>
    /\ orOut = NoResult
    /\ llm = NoResult
    /\ EmIdle /\ ScoreIdle /\ CreditIdle /\ ConfidenceIdle /\ ReviewIdle
    /\ SharedIdle
    /\ FetchIdle
    /\ OtpIdle
    /\ OtpHistoryIdle

\* self.model.start_chat(...), before the loop and outside its try.
StartChat ==
    /\ pc = "llm_called"
    /\ \E outcome \in {"returns", "raises"} :
           IF outcome = "returns"
           THEN /\ llm' = [kind |-> "locals", iteration |-> 0, fn |-> "none",
                           greenscore_result |-> FALSE, carbon_credits |-> FALSE,
                           failed |-> FALSE]
                /\ pc' = "llm_loop"
           ELSE /\ llm' = [kind |-> "raised", iteration |-> 0, fn |-> "none",
                           greenscore_result |-> FALSE, carbon_credits |-> FALSE,
                           failed |-> TRUE]
                /\ pc' = "llm_except"
    /\ UNCHANGED <<clock, emIn, emOut, scIn, scOut, scFirst, scOther, ccIn, ccOut,
                   cmIn, cmOut, rvIn, rvOut, orIn, orTrace, orOut, tables, inv, apiCalls, otpImpl, otpStore, otpLast, otpSeq, otpVerified>>

\* One chat.send_message at the head of an iteration: it raises (the loop's
\* except breaks), answers without parts (break), with a text part
\* (iteration += 1) or with a function call.
SendMessage ==
    /\ pc = "llm_loop"
    /\ llm.iteration < max_iterations
    /\ \/ /\ llm' = [llm EXCEPT !.failed = TRUE]
          /\ pc' = "llm_return"
       \/ /\ llm' = llm
          /\ pc' = "llm_return"
       \/ /\ llm' = [llm EXCEPT !.iteration = @ + 1]
          /\ pc' = "llm_loop"
       \/ /\ \E fn \in LlmFunctions : llm' = [llm EXCEPT !.fn = fn]
          /\ pc' = "llm_function"
    /\ UNCHANGED <<clock, emIn, emOut, scIn, scOut, scFirst, scOther, ccIn, ccOut,
                   cmIn, cmOut, rvIn, rvOut, orIn, orTrace, orOut, tables, inv, apiCalls, otpImpl, otpStore, otpLast, otpSeq, otpVerified>>

\* The requested function runs, its result is stored and sent back to
\* Gemini; an exception in any of this leaves the loop by its except branch.
ExecuteFunction ==
    /\ pc = "llm_function"
    /\ \E outcome \in FunctionOutcomes(llm.fn), sent \in {"returns", "raises"} :
           IF outcome = "raises"
           THEN /\ llm' = [llm EXCEPT !.failed = TRUE]
                /\ pc' = "llm_return"
           ELSE LET stored ==
                        [llm EXCEPT
                           !.greenscore_result =
                               IF llm.fn = "compute_greenscore" THEN TRUE ELSE @,
                           !.carbon_credits =
                               IF llm.fn = "calculate_carbon_credits" THEN TRUE ELSE @]
                IN IF sent = "raises"
                   THEN /\ llm' = [stored EXCEPT !.failed = TRUE]
                        /\ pc' = "llm_return"
                   ELSE /\ llm' = [stored EXCEPT !.iteration = @ + 1]
                        /\ pc' = "llm_loop"
    /\ UNCHANGED <<clock, emIn, emOut, scIn, scOut, scFirst, scOther, ccIn, ccOut,
                   cmIn, cmOut, rvIn, rvOut, orIn, orTrace, orOut, tables, inv, apiCalls, otpImpl, otpStore, otpLast, otpSeq, otpVerified>>

\* while iteration < max_iterations ends.
LoopExhausted ==
    /\ pc = "llm_loop"
    /\ llm.iteration >= max_iterations
    /\ pc' = "llm_return"
    /\ UNCHANGED <<clock, emIn, emOut, scIn, scOut, scFirst, scOther, ccIn, ccOut,
                   cmIn, cmOut, rvIn, rvOut, orIn, orTrace, orOut, llm, tables, inv, apiCalls, otpImpl, otpStore, otpLast, otpSeq, otpVerified>>

\* The return of _execute_llm_workflow and of _llm_orchestrated_processing.
\* A stored greenscore_result is the dictionary of the wrapper, and
\* greenscore_result.confidence raises AttributeError; otherwise the AIResult
\* is built from what the loop stored, with success=True.
ReturnLlmResult ==
    /\ pc = "llm_return"
    /\ IF llm.greenscore_result
       THEN /\ pc' = "llm_except"
            /\ orOut' = orOut
       ELSE /\ pc' = "or_done"
            /\ orOut' = [kind |-> "AIResult", success |-> TRUE, error |-> "none",
                         processing_time_ms |-> orIn.processing_time_ms]
    /\ UNCHANGED <<clock, emIn, emOut, scIn, scOut, scFirst, scOther, ccIn, ccOut,
                   cmIn, cmOut, rvIn, rvOut, orIn, orTrace, llm, tables, inv, apiCalls, otpImpl, otpStore, otpLast, otpSeq, otpVerified>>

\* except Exception: return await self._deterministic_processing(request)
FallBackToDeterministic ==
    /\ pc = "llm_except"
    /\ pc' = "or_called"
    /\ UNCHANGED <<clock, emIn, emOut, scIn, scOut, scFirst, scOther, ccIn, ccOut,
                   cmIn, cmOut, rvIn, rvOut, orIn, orTrace, orOut, llm, tables, inv, apiCalls, otpImpl, otpStore, otpLast, otpSeq, otpVerified>>

NextLlm ==
    \/ StartChat
    \/ SendMessage
    \/ ExecuteFunction
    \/ LoopExhausted
    \/ ReturnLlmResult
    \/ FallBackToDeterministic
    \/ CallProcessEvidence
    \/ ProcessEvidenceReturns
    \/ ReadOcrResult
    \/ ReturnFailure

SpecLlm == InitLlm /\ [][NextLlm]_vars

\* The run went through _deterministic_processing.
RanDeterministic == \E i \in 1 .. Len(orTrace) : orTrace[i] = Call("process_evidence")

\* C21: when the LLM-driven mode failed at any point (starting the chat,
\* sending a message or executing a requested function), the result
\* process_request returns is the one of the deterministic pipeline, never
\* one assembled from the partial LLM run.
C21_FailureFallsBack ==
    (pc = "or_done" /\ llm.failed) =>
        /\ RanDeterministic
        /\ ~orOut.success

(***************************************************************************)
(* Concurrent invocations on shared service objects.  The coroutines of    *)
(* one event loop interleave at their awaits: an invocation reads the      *)
(* tables of its service object up to its first await (BeginCall) and      *)
(* computes its result afterwards (FinishCall).  tables holds the          *)
(* attributes set by the constructors.                                     *)
(***************************************************************************)
ConfigTables ==
    [kind |-> "tables",
     kenya_factors |-> kenya_factors, global_factors |-> global_factors,
     pillar_maxes |-> pillar_maxes, standards |-> standards,
     thresholds |-> thresholds, value_thresholds |-> value_thresholds,
     fraud_patterns |-> fraud_patterns]

\* Number of invocations in flight.
MaxInvocations == 2

Invocations == 1 .. MaxInvocations

Kwh100 == [NoFeatures EXCEPT !.kwh_saved = Some(100)]

EmissionCalls ==
    {[op |-> "calculate_emissions", features |-> Kwh100, region |-> a.region,
      api_key |-> a.api_key, outcome |-> a.outcome] :
        a \in {[region |-> "Kenya", api_key |-> FALSE, outcome |-> "unused"],
                [region |-> "Kenya", api_key |-> TRUE, outcome |-> "factor"],
                [region |-> "Kenya", api_key |-> TRUE, outcome |-> "no_factor"],
                [region |-> "Uganda", api_key |-> FALSE, outcome |-> "unused"]}}

ScoreCalls ==
    {[op |-> "compute_score", sector |-> sector,
      em |-> CalculateEmissionsResult(Kwh100, "Kenya", FALSE, "unused"),
      um |-> NoMetrics] : sector \in {"farmer", "welding"}}

CreditCalls ==
    {[op |-> "calculate_carbon_credits", co2_kg_total |-> co2, confidence |-> 900,
      lifetime |-> MaxLifetime, sector |-> "farmer"] : co2 \in {50000, 2000000}}

ConfidenceCalls ==
    {[op |-> "evaluate_confidence", ai_result |-> ai,
      user_history |->
          [account_age_days |-> 400, previous_submissions |-> 11,
           approval_rate |-> 1000, fraud_flags |-> 0, phone_verified |-> TRUE,
           business_registered |-> TRUE, submissions_last_24h |-> 0,
           similar_evidence_count |-> 0, location_inconsistency |-> FALSE],
      sector_context |->
          [average_greenscore |-> 50, std_greenscore |-> 20,
           average_credit_value |-> 50]] :
        ai \in {r \in AiResults :
                   /\ r.shape = "pipeline" /\ r.confidence = 900
                   /\ r.processing_time_ms = 1000
                   /\ r.greenscore_result # None
                   /\ r.carbon_credits = NoCredits}}

SharedCalls == EmissionCalls \cup ScoreCalls \cup CreditCalls \cup ConfidenceCalls

\* _fetch_climatiq_factors on the tables of the shared calculator.
FetchFrom(t, api_key, outcome) ==
    IF ~api_key THEN [found |-> FALSE, grid |-> None]
    ELSE CASE outcome = "factor" -> [found |-> TRUE, grid |-> Some(300)]
           [] outcome = "no_factor" ->
                [found |-> TRUE, grid |-> t.kenya_factors.grid_ef_kg_co2_kwh]
           [] outcome = "null_factor" -> [found |-> TRUE, grid |-> None]
           [] OTHER -> [found |-> FALSE, grid |-> None]

\* _get_emission_factors on the tables of the shared calculator: every
\* branch returns a new dictionary {**self.kenya_factors, ...}.
ResolveFactors(t, api_key, region, outcome) ==
    IF region = "NoneRegion"
    THEN [f |-> t.kenya_factors, source |-> "error_fallback"]
    ELSE LET fetched == FetchFrom(t, api_key, outcome) IN
         IF CallsApi(api_key, region) /\ fetched.found
         THEN [f |-> [t.kenya_factors EXCEPT !.grid_ef_kg_co2_kwh = fetched.grid],
               source |-> "climatiq"]
         ELSE IF Lower(region) = "kenya"
         THEN [f |-> t.kenya_factors, source |-> "local_kenya"]
         ELSE [f |-> t.global_factors, source |-> "global_fallback"]

\* A resolution that merges the fetched factors into the shared table
\* (self.kenya_factors.update(climatiq_factors)).
TablesAfterResolveUpdatesShared(t, ef) ==
    IF ef.source = "climatiq" THEN [t EXCEPT !.kenya_factors = ef.f] ELSE t

\* The tables after _get_emission_factors: it assigns no attribute.
TablesAfterResolve(t, ef) == t

\* The body of calculate_emissions after the factors were resolved.
EmissionResultFrom(features, ef) ==
    IF UsesGrid(features) /\ ef.f.grid_ef_kg_co2_kwh = None
    THEN EmissionErrorFallback
    ELSE LET components == Co2Components(features, ef.f) IN
         [kind |-> "EmissionResult",
          co2_kg_components |-> components,
          co2_kg_total |-> TotalCo2(components),
          method |-> "Kenya EF + IPCC factors",
          ef_source |-> ef.source,
          confidence |-> EmissionConfidence(features, ef.source)]

\* What an invocation reads from the shared tables before its first await.
ReadTables(t, call) ==
    CASE call.op = "calculate_emissions" ->
            ResolveFactors(t, call.api_key, call.region, call.outcome)
      [] call.op = "compute_score" -> [pillar_maxes |-> t.pillar_maxes]
      [] call.op = "calculate_carbon_credits" -> [standards |-> t.standards]
      [] OTHER ->
            [thresholds |-> t.thresholds, value_thresholds |-> t.value_thresholds,
             fraud_patterns |-> t.fraud_patterns]

\* The result of the invocation run alone on freshly constructed services.
AloneResult(call) ==
    CASE call.op = "calculate_emissions" ->
            CalculateEmissionsResult(call.features, call.region, call.api_key,
                                     call.outcome)
      [] call.op = "compute_score" -> ComputeScoreResult(call.sector, call.em, call.um)
      [] call.op = "calculate_carbon_credits" ->
            CalculateCarbonCreditsResult(call.co2_kg_total, call.confidence,
                                         call.lifetime, call.sector)
      [] OTHER ->
            EvaluateConfidenceResult(call.ai_result, call.user_history,
                                     call.sector_context)

\* The result of the invocation from what it read.
ResultFrom(call, read) ==
    IF call.op = "calculate_emissions"
    THEN EmissionResultFrom(call.features, read)
    ELSE AloneResult(call)

InitShared ==
    /\ pc = "shared"
    /\ clock = 0
    /\ tables = ConfigTables
    /\ inv \in [Invocations ->
                  {[call |-> c, at |-> "called", read |-> NoResult, result |-> NoResult] :
                      c \in SharedCalls}]
    /\ EmIdle /\ ScoreIdle /\ CreditIdle /\ ConfidenceIdle /\ ReviewIdle
    /\ OrchestratorIdle /\ LlmIdle
    /\ FetchIdle
    /\ OtpIdle
    /\ OtpHistoryIdle

BeginCall(i) ==
    /\ inv[i].at = "called"
    /\ LET read == ReadTables(tables, inv[i].call) IN
         /\ inv' = [inv EXCEPT ![i].at = "awaiting", ![i].read = read]
         /\ tables' = IF inv[i].call.op = "calculate_emissions"
                       THEN TablesAfterResolve(tables, read)
                       ELSE tables
    /\ UNCHANGED <<pc, clock, emIn, emOut, scIn, scOut, scFirst, scOther, ccIn, ccOut,
                   cmIn, cmOut, rvIn, rvOut, orIn, orTrace, orOut, llm, apiCalls, otpImpl, otpStore, otpLast, otpSeq, otpVerified>>

FinishCall(i) ==
    /\ inv[i].at = "awaiting"
    /\ inv' = [inv EXCEPT ![i].at = "done",
                           ![i].result = ResultFrom(inv[i].call, inv[i].read)]
    /\ UNCHANGED <<pc, clock, emIn, emOut, scIn, scOut, scFirst, scOther, ccIn, ccOut,
                   cmIn, cmOut, rvIn, rvOut, orIn, orTrace, orOut, llm, tables, apiCalls, otpImpl, otpStore, otpLast, otpSeq, otpVerified>>

NextShared == \E i \in Invocations : BeginCall(i) \/ FinishCall(i)

SpecShared == InitShared /\ [][NextShared]_vars

FetchInputs ==
    {i \in [features : {NoFeatures, Kwh100,
                         [NoFeatures EXCEPT !.diesel_liters_avoided = Some(100)]},
            region : Regions, api_key : BOOLEAN,
            outcome : ApiOutcomes \cup {"unused"}] :
        i.outcome = "unused" <=> ~CallsApi(i.api_key, i.region)}

InitFetch ==
    /\ pc = "ef_called"
    /\ clock = 0
    /\ emIn \in FetchInputs
    /\ emOut = NoResult
    /\ apiCalls = 0
    /\ ScoreIdle /\ CreditIdle /\ ConfidenceIdle /\ ReviewIdle
    /\ OrchestratorIdle /\ LlmIdle /\ SharedIdle
    /\ OtpIdle
    /\ OtpHistoryIdle

\* A fetch that is tried again after an exception or an empty answer.
AfterFetchRetries(outcome) ==
    IF outcome \in {"error", "empty"} THEN "ef_fetching" ELSE "ef_resolved"

\* Where _get_emission_factors goes after _fetch_climatiq_factors returned:
\* to one of its return statements, whatever the fetch produced.
AfterFetch(outcome) == "ef_resolved"

\* _get_emission_factors up to the call of _fetch_climatiq_factors, which is
\* made only with a key and for Kenya.
GetFactors ==
    /\ pc = "ef_called"
    /\ pc' = IF CallsApi(emIn.api_key, emIn.region) THEN "ef_fetching"
             ELSE "ef_resolved"
    /\ UNCHANGED <<clock, emIn, emOut, scIn, scOut, scFirst, scOther, ccIn, ccOut,
                   cmIn, cmOut, rvIn, rvOut, orIn, orTrace, orOut, llm, tables, inv,
                   apiCalls, otpImpl, otpStore, otpLast, otpSeq, otpVerified>>

\* _fetch_climatiq_factors: one requests.get with a timeout; an exception
\* and an answer without results both return None.
FetchClimatiq ==
    /\ pc = "ef_fetching"
    /\ apiCalls' = apiCalls + 1
    /\ pc' = AfterFetch(emIn.outcome)
    /\ UNCHANGED <<clock, emIn, emOut, scIn, scOut, scFirst, scOther, ccIn, ccOut,
                   cmIn, cmOut, rvIn, rvOut, orIn, orTrace, orOut, llm, tables, inv, otpImpl, otpStore, otpLast, otpSeq, otpVerified>>

\* The return of _get_emission_factors and the rest of calculate_emissions.
CompleteEmissions ==
    /\ pc = "ef_resolved"
    /\ emOut' = CalculateEmissionsResult(emIn.features, emIn.region,
                                         emIn.api_key, emIn.outcome)
    /\ pc' = "ef_done"
    /\ UNCHANGED <<clock, emIn, scIn, scOut, scFirst, scOther, ccIn, ccOut,
                   cmIn, cmOut, rvIn, rvOut, orIn, orTrace, orOut, llm, tables, inv,
                   apiCalls, otpImpl, otpStore, otpLast, otpSeq, otpVerified>>

NextFetch == GetFactors \/ FetchClimatiq \/ CompleteEmissions

SpecFetch == InitFetch /\ [][NextFetch]_vars

\* The one attempt failed or produced no factor table.
AttemptFailed == emIn.outcome \in {"error", "empty"}

Phones == {"+254700000001", "+254700000002"}

\* The six-digit codes enumerated.
Codes == {"111111", "222222"}

\* hashlib.sha256(code.encode()).hexdigest(), on the codes enumerated.
Sha256(code) ==
    CASE code = "111111" -> "bcb15f821479b4d5772bd0ca866c00ad5f926e3580720659cc80d39c9d09802a"
      [] code = "222222" -> "4cc8f4d609b717356701c57a03e737e5ac8fe885da8c7163d3de47e01849c635"
      [] OTHER -> "e3b0c44298fc1c149afbf4c8996fb92427ae41e4649b934ca495991b7852b855"

OtpLifetime == 300

\* Ticks the clock may advance, and requests served.
MaxOtpTicks == 3

MaxRequests == 3

\* int(time.time()): one tick of the clock is 150 seconds.
Now == clock * 150

NoOtp == [kind |-> "absent", hashed |-> "none", expiry |-> 0]

Implementations == {"main", "router"}

InitOtp ==
    /\ pc = "otp"
    /\ clock = 0
    /\ otpImpl \in Implementations
    /\ otpStore = [p \in Phones |-> NoOtp]
    /\ otpLast = NoResult
    /\ otpSeq = 0
    /\ EmIdle /\ ScoreIdle /\ CreditIdle /\ ConfidenceIdle /\ ReviewIdle
    /\ OrchestratorIdle /\ LlmIdle /\ SharedIdle /\ FetchIdle
    /\ otpVerified = [p \in Phones |-> "none"]

OtpTick ==
    /\ pc = "otp"
    /\ clock < MaxOtpTicks
    /\ clock' = clock + 1
    /\ UNCHANGED <<pc, emIn, emOut, scIn, scOut, scFirst, scOther, ccIn, ccOut,
                   cmIn, cmOut, rvIn, rvOut, orIn, orTrace, orOut, llm, tables, inv,
                   apiCalls, otpImpl, otpStore, otpLast, otpSeq, otpVerified>>

Response(op, phone, code, status, token, detail) ==
    [kind |-> "response", seq |-> otpSeq + 1, op |-> op, phone |-> phone,
     code |-> code, status |-> status, token |-> token, detail |-> detail]

\* send_otp: a random code, its hash stored with an expiry of five minutes.
SendOtp ==
    /\ pc = "otp"
    /\ otpSeq < MaxRequests
    /\ \E phone \in Phones, code \in Codes :
          /\ otpStore' = [otpStore EXCEPT ![phone] =
                             [kind |-> "stored", hashed |-> Sha256(code),
                              expiry |-> Now + OtpLifetime]]
          /\ otpLast' = Response("send", phone, "none", 200, FALSE, "sent")
          /\ otpVerified' = [otpVerified EXCEPT ![phone] = "none"]
    /\ otpSeq' = otpSeq + 1
    /\ UNCHANGED <<pc, clock, emIn, emOut, scIn, scOut, scFirst, scOther, ccIn, ccOut,
                   cmIn, cmOut, rvIn, rvOut, orIn, orTrace, orOut, llm, tables, inv,
                   apiCalls, otpImpl>>

\* A verify_otp that leaves the OTP in the store after it was verified.
StoreAfterVerifiedKeeps(impl, store, phone) == store

\* The store after the code was verified: the router deletes the OTP
\* (del OTP_STORE[phone]), app/main.py leaves it.
StoreAfterVerified(impl, store, phone) ==
    IF impl = "router" THEN [store EXCEPT ![phone] = NoOtp] ELSE store

\* The store after an expired OTP was found: the router deletes it.
StoreAfterExpired(impl, store, phone) ==
    IF impl = "router" THEN [store EXCEPT ![phone] = NoOtp] ELSE store

\* A verification that skips the comparison of the hashes.
CodeMatchesAlways(code, stored) == TRUE

\* hashlib.sha256(code.encode()).hexdigest() != hashed
CodeMatches(code, stored) == Sha256(code) = stored.hashed

\* verify_otp.  after is what the user lookup, the commit and the signing
\* of the token did once the code was verified.
VerifyOtp ==
    /\ pc = "otp"
    /\ otpSeq < MaxRequests
    /\ \E phone \in Phones, code \in Codes, after \in {"returns", "raises"} :
          /\ LET stored == otpStore[phone] IN
             IF stored.kind = "absent"
             THEN /\ otpLast' = Response("verify", phone, code, 400, FALSE, "No OTP requested")
                  /\ otpStore' = otpStore
             ELSE IF Now > stored.expiry
             THEN /\ otpLast' = Response("verify", phone, code, 400, FALSE, "OTP expired")
                  /\ otpStore' = StoreAfterExpired(otpImpl, otpStore, phone)
             ELSE IF ~CodeMatches(code, stored)
             THEN /\ otpLast' = Response("verify", phone, code, 400, FALSE, "Invalid code")
                  /\ otpStore' = otpStore
             ELSE /\ otpStore' = StoreAfterVerified(otpImpl, otpStore, phone)
                  /\ otpLast' =
                         IF after = "returns"
                         THEN Response("verify", phone, code, 200, TRUE, "bearer")
                         ELSE Response("verify", phone, code, 500, FALSE, "failed")
          /\ otpVerified' =
                 IF otpLast'.status = 200
                 THEN [otpVerified EXCEPT ![phone] = code]
                 ELSE otpVerified
    /\ otpSeq' = otpSeq + 1
    /\ UNCHANGED <<pc, clock, emIn, emOut, scIn, scOut, scFirst, scOther, ccIn, ccOut,
                   cmIn, cmOut, rvIn, rvOut, orIn, orTrace, orOut, llm, tables, inv,
                   apiCalls, otpImpl>>

NextOtp == OtpTick \/ SendOtp \/ VerifyOtp

SpecOtp == InitOtp /\ [][NextOtp]_vars

\* The step is a verify_otp request being answered.
VerifyStep == otpSeq' = otpSeq + 1 /\ otpLast'.op = "verify"

C30_OtpSingleUse ==
    [][(otpImpl = "router" /\ VerifyStep) =>
         /\ otpVerified[otpLast'.phone] = otpLast'.code =>
                /\ otpLast'.status = 400
                /\ ~otpLast'.token
         /\ otpLast'.detail = "Invalid code" =>
                /\ otpLast'.status = 400
                /\ otpStore' = otpStore]_vars

\* The router rejected the code it had verified before, no send_otp for
\* the phone in between.
C30_Witness ==
    /\ pc = "otp"
    /\ otpImpl = "router"
    /\ otpLast.kind = "response"
    /\ otpLast.op = "verify"
    /\ otpLast.status = 400
    /\ otpVerified[otpLast.phone] = otpLast.code

(***************************************************************************)
(* Claims about the status of a credit                                     *)
(***************************************************************************)
\* The credits a call returned and the values every credit was constructed
\* from.
CreditsBuilt ==
    {ccOut.credits[i] : i \in 1 .. Len(ccOut.credits)} \cup ccOut.constructed

C29_AutoRejectIsReviewed ==
    (pc = "cm_done" /\ "auto_reject" \in cmOut.keys /\ cmOut.auto_reject) =>
        /\ cmOut.review_required
        /\ Contains(cmOut.review_reasons, "low_confidence")
        /\ cmOut.review_reasons # <<>>
        /\ cmOut.review_priority \in {"medium", "high"}

\* An assessment of an in-range confidence was rejected automatically; the
\* fraud trigger had raised its priority and the outlier trigger, which
\* runs later, set it to medium.
C29_Witness ==
    /\ pc = "cm_done"
    /\ cmIn.ai_result.confidence \in 0 .. 1000
    /\ cmOut.auto_reject
    /\ Contains(cmOut.review_reasons, "fraud_risk")
    /\ Contains(cmOut.review_reasons, "sector_outlier")
    /\ cmOut.review_priority = "medium"

(***************************************************************************)
(* Claims about the explainers and the actions of compute_score            *)
(***************************************************************************)
\* The positions of the pillar lines among the explainers of the result.
PillarLines == {i \in 1 .. Len(scOut.explainers) : scOut.explainers[i].pillar \in Pillars}

\* C26: the explainers of a score hold at most 3 pillar lines, for the
\* three pillars with the highest weighted values; each line reports the
\* raw (unweighted, capped) subscore of its pillar and that subscore as a
\* percentage of the pillar maximum, which is never above 100; and there is
\* one line naming the largest emission component exactly when components
\* exist.
C26_ExplainersReportRawScores ==
    (pc = "sc_done" /\ ~MetricRaises(scIn.um)) =>
        LET ex == scOut.explainers
            raw == CalculateSubscores(scIn.em.co2_kg_total, scIn.um)
            named == {ex[i].pillar : i \in PillarLines}
            largest == {i \in 1 .. Len(ex) : ex[i].pillar = "largest_impact"}
        IN /\ Cardinality(PillarLines) <= 3
           /\ \A p \in named : \A q \in Pillars \ named :
                 scOut.subscores[p] >= scOut.subscores[q]
           /\ \A i \in PillarLines :
                 /\ ex[i].score = raw[ex[i].pillar] * (WeightedScale \div PointScale)
                 /\ ex[i].percentage =
                       RoundHalfEven(raw[ex[i].pillar],
                                     pillar_maxes[ex[i].pillar] * (PointScale \div 100))
                 /\ ex[i].percentage <= 100
           /\ Cardinality(largest) <= 1
           /\ largest # {} <=> DOMAIN scIn.em.co2_kg_components # {}

\* C27: the actions of a score start with the message of the greenscore
\* bracket (at least 80, at least 60, at least 40, below); they hold the
\* priority line of a pillar exactly when that pillar's subscore in the
\* result is under 30% of the pillar maximum; and they hold at most 2
\* further lines, the sector suggestions.
C27_ActionsFollowScore ==
    (pc = "sc_done" /\ ~MetricRaises(scIn.um)) =>
        LET acts == scOut.actions
            under(p) == scOut.subscores[p] * 10 < 3 * pillar_maxes[p] * WeightedScale
            priority == {i \in 1 .. Len(acts) :
                            \E p \in Pillars : acts[i] = "Priority: " \o p}
        IN /\ Len(acts) >= 2
           /\ acts[1] =
                 (IF scOut.greenscore >= 80
                  THEN "Excellent! Approved for premium green loan rates"
                  ELSE IF scOut.greenscore >= 60
                  THEN "Good progress! Approved for standard green loan discount"
                  ELSE IF scOut.greenscore >= 40
                  THEN "Approved with basic green discount"
                  ELSE "Additional evidence needed for green loan qualification")
           /\ \A p \in Pillars : Contains(acts, "Priority: " \o p) <=> under(p)
           /\ Len(acts) - 2 - Cardinality(priority) <= 2

====
